---- MODULE Spec2Model ----
(***************************************************************************)
(* Model of the request-retry / proxy-rotation layer of Gravy Jobs         *)
(* (src/vpn_manager.py): the VPNManager object, its configuration          *)
(* dictionary, the response cache, the license check and the               *)
(* fetch_with_retry loop.                                                  *)
(*                                                                         *)
(* Python values are rendered as follows.  None is the string "None".      *)
(* A response body is a sequence of words (the empty string is << >>), so  *)
(* that `marker in response.text.lower()` is a search over lower-cased     *)
(* words.  An optional content (str or None) is a record                   *)
(* [is_none, text].  List indices keep Python's 0-based values.            *)
(***************************************************************************)
EXTENDS Integers, Sequences, FiniteSets, TLC

None == "None"

Range(s) == {s[i] : i \in 1..Len(s)}

Min(S) == CHOOSE x \in S : \A y \in S : x <= y

\* Python list indexing with a 0-based index.
At(list, i) == list[i + 1]

\* list.index(x): the 0-based index of the first occurrence.
IndexOf(list, x) == Min({i \in 1..Len(list) : list[i] = x}) - 1

-----------------------------------------------------------------------------
(* Bounds of the model *)

\* VPNManager.get calls per behaviour; configuration calls and the clock are
\* followed as long as a get call can still come after them.
MaxCalls == 1

\* The clock advances in steps of TickHours up to MaxHours.
TickHours == 24
MaxHours == 24

-----------------------------------------------------------------------------
(* Program constants (DEFAULT_CONFIG) *)

Services == <<"brightdata", "oxylabs", "smartproxy", "proxymesh", "zenrows", "scraperapi">>

ServiceSet == Range(Services)

\* The keys of config["proxy_services"].
ProxyServicesKeys == {"enabled", "current_service"} \cup ServiceSet

\* Services whose fetch function sends browser headers (and so draws a user agent).
HeaderServices == {"brightdata", "oxylabs", "smartproxy", "proxymesh"}

Absent == "<absent>"

DefaultCountry ==
  [s \in ServiceSet |-> IF s \in {"brightdata", "oxylabs"} THEN "us" ELSE Absent]

CountryPool(s) ==
  CASE s \in {"brightdata", "scraperapi"} -> <<"us", "uk", "ca", "au", "de", "fr", "jp", "sg">>
    [] s \in {"oxylabs", "smartproxy", "zenrows"} -> <<"us", "gb", "ca", "au", "de", "fr", "jp", "sg">>
    [] OTHER -> << >>

DefaultProxies == <<None, "socks5://127.0.0.1:8080", "socks5://127.0.0.1:8081">>

UserAgentCount == 8

FingerprintCount == 5

max_retries == 5

cache_expiry_hours == 24

fingerprint_rotation_frequency == 10

CacheNameLimit == 200

BasicFeatures == <<"basic_scraping">>

PremiumFeatures ==
  <<"basic_scraping", "commercial_proxies", "advanced_scraping", "claude_integration", "general_scraping">>

TestKey == "TEST-GRAVY-JOBS-12345"

DevKey == "DEV-GRAVY-JOBS-ACCESS"

ValidKeys == <<TestKey, DevKey>>

PartialLen == 8

\* site_settings, keyed by the domain as a sequence of labels.
SiteNames ==
  << <<"indeed", "com">>, <<"remoteok", "com">>, <<"linkedin", "com">>,
     <<"freelancer", "com">>, <<"craigslist", "org">> >>

SiteSettingsOf(site) ==
  CASE site = <<"indeed", "com">> ->
         [high_scrutiny |-> TRUE, extra_delay |-> 2, max_requests_per_session |-> 10]
    [] site = <<"remoteok", "com">> ->
         [high_scrutiny |-> TRUE, extra_delay |-> 1, max_requests_per_session |-> 5]
    [] site = <<"linkedin", "com">> ->
         [high_scrutiny |-> TRUE, extra_delay |-> 3, max_requests_per_session |-> 8]
    [] site = <<"freelancer", "com">> ->
         [high_scrutiny |-> FALSE, extra_delay |-> 0, max_requests_per_session |-> 20]
    [] site = <<"craigslist", "org">> ->
         [high_scrutiny |-> FALSE, extra_delay |-> 1, max_requests_per_session |-> 15]

\* The settings fetch_with_retry uses for a domain without site settings.
FallbackSiteSettings ==
  [high_scrutiny |-> FALSE, extra_delay |-> 0, max_requests_per_session |-> 20]

-----------------------------------------------------------------------------
(* Inputs: request targets, responses, license keys *)

NoParams == << >>

\* (url, params) pairs.  A url is scheme, host labels and the tokens of the path.
Targets ==
  { [host |-> <<"www", "indeed", "com">>, path |-> <<"jobs">>, params |-> << <<"q", "python">> >>],
    [host |-> <<"example", "org">>, path |-> <<"a", "/", "b">>, params |-> NoParams] }

NoContent == [is_none |-> TRUE, text |-> << >>]

Some(t) == [is_none |-> FALSE, text |-> t]

\* Python truthiness of a str-or-None value: None and "" are both false.
Truthy(c) == ~c.is_none /\ c.text # << >>

Texts ==
  { << >>, <<"job", "listings">>, <<"Solve", "CAPTCHA">>, <<"Automated", "access", "blocked">> }

Statuses == {200, 403, 429, 503, 500}

\* What session.get does: a response, or one of the requests exceptions.
Outcomes ==
  [kind : {"response"}, status_code : Statuses, text : Texts]
    \cup [kind : {"ConnectionError", "Timeout", "RequestException"},
          status_code : {0}, text : {<< >>}]

\* str.lower() on the words of the model.
LowerWord(w) ==
  CASE w = "CAPTCHA" -> "captcha"
    [] w = "Solve" -> "solve"
    [] w = "Access" -> "access"
    [] w = "Automated" -> "automated"
    [] OTHER -> w

Lower(text) == [i \in 1..Len(text) |-> LowerWord(text[i])]

\* `marker in text`
Contains(text, marker) == \E i \in 1..Len(text) : text[i] = marker

-----------------------------------------------------------------------------
(* Pure helpers *)

\* get_domain: the last two labels of the host when it has more than two.
get_domain(target) ==
  LET parts == target.host
  IN IF Len(parts) > 2 THEN SubSeq(parts, Len(parts) - 1, Len(parts)) ELSE parts

Domains == {get_domain(t) : t \in Targets}

\* `site in domain` on label sequences.
SiteInDomain(site, domain) ==
  \E i \in 1..Len(domain) :
    i + Len(site) - 1 <= Len(domain) /\ SubSeq(domain, i, i + Len(site) - 1) = site

\* The first site of site_settings matching the domain, or the fallback settings.
site_settings_for(domain) ==
  LET hits == {i \in 1..Len(SiteNames) : SiteInDomain(SiteNames[i], domain)}
  IN IF hits = {} THEN FallbackSiteSettings ELSE SiteSettingsOf(SiteNames[Min(hits)])

\* "sep".join(parts) on token sequences.
RECURSIVE Join(_, _)
Join(parts, sep) ==
  IF Len(parts) = 0 THEN << >>
  ELSE IF Len(parts) = 1 THEN parts[1]
  ELSE parts[1] \o <<sep>> \o Join(Tail(parts), sep)

UrlTokens(target) ==
  <<"https", ":", "/", "/">> \o Join([i \in 1..Len(target.host) |-> <<target.host[i]>>], ".")
    \o <<"/">> \o target.path

\* get_cache_key: the url, then "?" and the k=v items joined by "&" when params is non-empty.
get_cache_key(target) ==
  IF target.params # NoParams
  THEN UrlTokens(target) \o <<"?">>
         \o Join([i \in 1..Len(target.params) |->
                    <<target.params[i][1], "=", target.params[i][2]>>], "&")
  ELSE UrlTokens(target)

ReplaceToken(tok) == IF tok \in {"/", ":", "?", "&"} THEN "_" ELSE tok

\* The cache file name: separators replaced by "_", cut to the name limit.
cache_file(target) ==
  LET key == get_cache_key(target)
      replaced == [i \in 1..Len(key) |-> ReplaceToken(key[i])]
  IN SubSeq(replaced, 1, IF Len(replaced) < CacheNameLimit THEN Len(replaced) ELSE CacheNameLimit)

CacheFiles == {cache_file(t) : t \in Targets}

\* A cache file: present or not, parsable as the stored JSON or not.
NoEntry == [exists |-> FALSE, readable |-> TRUE, timestamp |-> 0, content |-> << >>]

\* A lookup that still serves an entry at the hour of its expiry.
get_cached_response_at_expiry(target, cache_dir, clock) ==
  LET e == cache_dir[cache_file(target)]
  IN IF e.exists /\ e.readable /\ clock <= e.timestamp + cache_expiry_hours
     THEN Some(e.content)
     ELSE NoContent

\* get_cached_response: the stored content while the entry has not expired; an
\* entry that cannot be read raises inside the try block and yields None.
get_cached_response(target, cache_dir, clock) ==
  LET e == cache_dir[cache_file(target)]
  IN IF e.exists /\ e.readable /\ clock < e.timestamp + cache_expiry_hours
     THEN Some(e.content)
     ELSE NoContent

\* cache_response: overwrite the entry of the target's cache file.
cache_response(target, text, cache_dir, clock) ==
  [cache_dir EXCEPT ![cache_file(target)] =
     [exists |-> TRUE, readable |-> TRUE, timestamp |-> clock, content |-> text]]

\* str.startswith
StartsWith(s, p) == Len(s) >= Len(p) /\ SubSeq(s, 1, Len(p)) = p

\* valid_key[:8]
KeyPrefix(k) == SubSeq(k, 1, IF Len(k) < PartialLen THEN Len(k) ELSE PartialLen)

LicenseResult(valid, message, features) ==
  [valid |-> valid, message |-> message, enabled_features |-> features]

\* A verification that accepts the two built-in keys only; LicenseVerdict must
\* tell it from the verification of the source.
verify_license_exact(license_key) ==
  IF license_key \in Range(ValidKeys)
  THEN LicenseResult(TRUE, "License active", PremiumFeatures)
  ELSE LicenseResult(FALSE, "Invalid license key", BasicFeatures)

\* verify_license's result for a license key.
verify_license_result(license_key) ==
  IF license_key = ""
  THEN LicenseResult(FALSE, "No license key provided", BasicFeatures)
  ELSE IF license_key = TestKey
  THEN LicenseResult(TRUE, "Test license active", PremiumFeatures)
  ELSE IF license_key = DevKey
  THEN LicenseResult(TRUE, "Developer license active", PremiumFeatures)
  ELSE IF \E i \in 1..Len(ValidKeys) : StartsWith(license_key, KeyPrefix(ValidKeys[i]))
  THEN LicenseResult(TRUE, "License key partially matched (for demo)", PremiumFeatures)
  ELSE LicenseResult(FALSE, "Invalid license key", BasicFeatures)

\* verify_license: the result, and the configuration with enabled_features updated.
verify_license(cfg) ==
  LET result == verify_license_result(cfg.license_key)
  IN [config |-> [cfg EXCEPT !.enabled_features = result.enabled_features],
      result |-> result]

\* is_proxy_working: the direct connection is assumed to work; a proxy is probed.
is_proxy_working(proxy, reachable) == proxy = None \/ proxy \in reachable

\* A rotation that moves to the next proxy without probing it; FirstWorkingProxy
\* must tell it from the rotation of the source.
rotate_proxy_unprobed(cfg, reachable) ==
  LET next_index == (cfg.current_proxy_index + 1) % Len(cfg.proxies)
  IN [config |-> [cfg EXCEPT !.current_proxy_index = next_index],
      ret |-> At(cfg.proxies, next_index)]

\* rotate_proxy: the first working proxy after the current one, cyclically.
rotate_proxy(cfg, reachable) ==
  LET n == Len(cfg.proxies)
      idx(k) == (cfg.current_proxy_index + k) % n
      hits == {k \in 1..n : is_proxy_working(At(cfg.proxies, idx(k)), reachable)}
  IN IF hits # {}
     THEN [config |-> [cfg EXCEPT !.current_proxy_index = idx(Min(hits))],
           ret |-> At(cfg.proxies, idx(Min(hits)))]
     ELSE [config |-> [cfg EXCEPT !.current_proxy_index =
                         IF None \in Range(cfg.proxies) THEN IndexOf(cfg.proxies, None) ELSE 0],
           ret |-> None]

\* get_random_user_agent: advance to the next user agent.
get_random_user_agent(cfg) ==
  [cfg EXCEPT !.current_user_agent_index = (cfg.current_user_agent_index + 1) % UserAgentCount]

\* rotate_commercial_proxy_country: the next country of the current service's pool.
rotate_commercial_proxy_country(cfg) ==
  LET s == cfg.current_service
      pool == CountryPool(s)
      cur == IF cfg.service_country[s] = Absent THEN pool[1] ELSE cfg.service_country[s]
      next_index == IF cur \in Range(pool) THEN (IndexOf(pool, cur) + 1) % Len(pool) ELSE 0
  IN IF ~cfg.ps_enabled THEN cfg
     ELSE IF s = None THEN cfg
     ELSE IF ~cfg.service_enabled[s] THEN cfg
     ELSE IF Len(pool) = 0 THEN cfg
     ELSE [cfg EXCEPT !.service_country[s] = At(pool, next_index)]

NoFingerprint == 0 - 1

\* rotate_fingerprint: the next fingerprint and, when configured, a new IP with it.
rotate_fingerprint(cfg, reachable) ==
  IF ~cfg.fp_enabled THEN [config |-> cfg, ret |-> NoFingerprint]
  ELSE
    LET next_index == (cfg.current_fingerprint_index + 1) % FingerprintCount
        cfg1 == [cfg EXCEPT !.current_fingerprint_index = next_index]
        cfg2 == IF cfg1.rotate_ip_with_fingerprint
                THEN IF cfg1.ps_enabled
                     THEN rotate_commercial_proxy_country(cfg1)
                     ELSE rotate_proxy(cfg1, reachable).config
                ELSE cfg1
    IN [config |-> cfg2, ret |-> next_index]

\* get_current_fingerprint
get_current_fingerprint(cfg) ==
  IF ~cfg.fp_enabled THEN NoFingerprint ELSE cfg.current_fingerprint_index

\* A count that rotates the fingerprint on the site's count instead of the total
\* count; RotationEveryFrequency must tell it from the count of the source.
increment_by_site_count(target, cfg, reachable) ==
  LET domain == get_domain(target)
      cfg1 == [cfg EXCEPT !.site_request_counts[domain] = @ + 1,
                          !.total_request_count = @ + 1]
  IN IF cfg1.fp_enabled /\ cfg1.site_request_counts[domain] % fingerprint_rotation_frequency = 0
     THEN rotate_fingerprint(cfg1, reachable).config
     ELSE cfg1

\* increment_site_request_count: count the request, rotating the fingerprint
\* every fingerprint_rotation_frequency counted requests.
increment_site_request_count(target, cfg, reachable) ==
  LET domain == get_domain(target)
      cfg1 == [cfg EXCEPT !.site_request_counts[domain] = @ + 1,
                          !.total_request_count = @ + 1]
  IN IF cfg1.fp_enabled /\ cfg1.total_request_count % fingerprint_rotation_frequency = 0
     THEN rotate_fingerprint(cfg1, reachable).config
     ELSE cfg1

\* A session check that lets one request more through before rotating.
should_rotate_session_above(target, cfg) ==
  LET domain == get_domain(target)
  IN \E i \in 1..Len(SiteNames) :
       /\ SiteInDomain(SiteNames[i], domain)
       /\ cfg.site_request_counts[domain] > SiteSettingsOf(SiteNames[i]).max_requests_per_session

\* should_rotate_session: some matching site has used up its requests per session.
should_rotate_session(target, cfg) ==
  LET domain == get_domain(target)
  IN \E i \in 1..Len(SiteNames) :
       /\ SiteInDomain(SiteNames[i], domain)
       /\ cfg.site_request_counts[domain] >= SiteSettingsOf(SiteNames[i]).max_requests_per_session

\* reset_site_request_counts
reset_site_request_counts(cfg) ==
  [cfg EXCEPT !.site_request_counts = [d \in Domains |-> 0]]

\* The blocking test of fetch_with_retry.
is_blocked(response) ==
  \/ response.status_code \in {403, 429, 503}
  \/ Contains(Lower(response.text), "captcha")
  \/ Contains(Lower(response.text), "blocked")
  \/ Contains(Lower(response.text), "automated")

\* fetch_using_<service>: the body of a 200 response, None otherwise; the four
\* proxy-style services build browser headers first.
fetch_using_service(service, cfg, outcome) ==
  [config |-> IF service \in HeaderServices THEN get_random_user_agent(cfg) ELSE cfg,
   content |-> IF outcome.kind = "response" /\ outcome.status_code = 200
               THEN Some(outcome.text)
               ELSE NoContent]

\* fetch_using_commercial_proxy: fetch through the current service (the first
\* enabled one when none is current); sent tells whether a request went out.
fetch_using_commercial_proxy(cfg, outcome) ==
  LET enabled == {i \in 1..Len(Services) : cfg.service_enabled[Services[i]]}
      current == IF cfg.current_service # None THEN cfg.current_service
                 ELSE IF enabled # {} THEN Services[Min(enabled)]
                 ELSE None
      cfg1 == [cfg EXCEPT !.current_service = current]
  IN IF ~cfg.ps_enabled THEN [config |-> cfg, content |-> NoContent, sent |-> FALSE]
     ELSE IF current = None THEN [config |-> cfg, content |-> NoContent, sent |-> FALSE]
     ELSE IF ~cfg1.service_enabled[current]
     THEN [config |-> cfg1, content |-> NoContent, sent |-> FALSE]
     ELSE [config |-> fetch_using_service(current, cfg1, outcome).config,
           content |-> fetch_using_service(current, cfg1, outcome).content,
           sent |-> TRUE]

-----------------------------------------------------------------------------
(* State *)

VARIABLES
  config,          \* the configuration dictionary of the VPNManager
  license_status,  \* VPNManager.license_status
  working,         \* the proxies that answer is_proxy_working's probe
  cache,           \* the cache directory: cache file name -> entry
  now,             \* the clock, in hours
  call,            \* the VPNManager.get call in progress and its locals
  obs,             \* what the call in progress has done so far
  last_op,         \* the configuration call just made and what it returned
  n_calls          \* get calls made

\* The state of the applications built on the VPNManager.
VARIABLES
  futures,         \* scrape_all_sources: the future of each site scraper
  access,          \* the objects each thread is reading or writing right now
  scraper,         \* JobScraper: the calling thread and its job lists
  curation,        \* ai_curate_jobs and the report generators: input and output
  crawl            \* GeneralScraper: the run in progress

\* The site scrapers, in the order scrape_all_sources submits them.
Sources == <<"freelancer", "craigslist", "indeed", "remoteok", "stackoverflow", "linkedin">>

SourceSet == {Sources[i] : i \in 1..Len(Sources)}

\* The calling thread and one worker thread per submitted scraper.
Threads == SourceSet \cup {"main"}

NoFutures == [s \in SourceSet |-> [state |-> "none", raised |-> FALSE, jobs |-> << >>]]

NoAccess == [t \in Threads |-> {}]

IdleScraper ==
  [pc |-> "idle",          \* idle, collecting (in as_completed), done
   previous_jobs |-> << >>,
   new_jobs |-> << >>,
   all_jobs |-> << >>,
   data_file |-> << >>,    \* the jobs stored in config["data_file"]
   handled |-> {},         \* the futures as_completed has yielded so far
   cur |-> "None",         \* the future being handled
   errors |-> 0]           \* "Error in job scraping task" lines logged

netvars == <<config, license_status, working, cache, now, call, obs, last_op, n_calls>>

\* No curation and no crawl is in progress.
NoCuration == [pc |-> "idle"]

NoCrawl == [pc |-> "off"]

appvars == <<futures, access, scraper, curation, crawl>>

vars == <<netvars, appvars>>

\* No application is running.
AppIdle ==
  /\ futures = NoFutures
  /\ access = NoAccess
  /\ scraper = IdleScraper
  /\ curation = NoCuration
  /\ crawl = NoCrawl

DefaultConfig ==
  [ps_enabled |-> FALSE,
   current_service |-> None,
   service_enabled |-> [s \in ServiceSet |-> FALSE],
   service_country |-> DefaultCountry,
   fp_enabled |-> TRUE,
   current_fingerprint_index |-> 0,
   license_key |-> "",
   enabled_features |-> BasicFeatures,
   proxies |-> DefaultProxies,
   current_proxy_index |-> 0,
   current_user_agent_index |-> 0,
   auto_rotate_on_block |-> TRUE,
   rotate_ip_with_fingerprint |-> TRUE,
   site_request_counts |-> [d \in Domains |-> 0],
   total_request_count |-> 0]

IdleCall ==
  [pc |-> "idle",
   target |-> CHOOSE t \in Targets : t.params # NoParams,
   force_fresh |-> FALSE,
   attempt |-> 0,
   proxy |-> None,
   commercial_proxy_tried |-> FALSE,
   fingerprint |-> NoFingerprint,
   svc_i |-> 1,
   result |-> NoContent,
   how |-> "none"]

NoReq == [set |-> FALSE, proxy |-> None, blocked |-> FALSE]

NoNet == [set |-> FALSE, resp |-> [kind |-> "response", status_code |-> 200, text |-> << >>]]

NoObs ==
  [in_fetch |-> FALSE,       \* fetch_with_retry was entered
   std_sent |-> 0,           \* requests of the retry loop sent by fetch_with_retry
   comm_sent |-> 0,          \* commercial-proxy requests sent by fetch_with_retry
   get_comm_sent |-> 0,      \* commercial-proxy requests sent by get itself
   all_blocked |-> TRUE,     \* every request of the retry loop met a blocking signal
   net |-> NoNet,            \* the response whose body was returned or cached
   last_req |-> NoReq,       \* the latest request of the retry loop
   hit_expected |-> FALSE,   \* called with force_fresh unset and an unexpired entry
   fetch_cfg |-> DefaultConfig]  \* the configuration at entry, kept on a cache hit

NoOp == [op |-> "none", arg |-> "", ret |-> "None"]

\* The cache directories a session starts with: empty, or an entry per file that
\* an earlier session stored from a 200 response of the retry loop (line 1309),
\* whose body may be empty.
StoredCaches ==
  {[f \in CacheFiles |-> NoEntry]}
    \cup {[f \in CacheFiles |-> [exists |-> TRUE, readable |-> TRUE, timestamp |-> 0,
                                     content |-> text]] :
            text \in {<< >>, <<"job", "listings">>}}

\* The configurations a session starts with: DEFAULT_CONFIG, or the stored
\* configuration with one of the switches of the rotation turned off.
StoredConfigs ==
  { DefaultConfig,
    [DefaultConfig EXCEPT !.fp_enabled = FALSE],
    [DefaultConfig EXCEPT !.auto_rotate_on_block = FALSE],
    [DefaultConfig EXCEPT !.rotate_ip_with_fingerprint = FALSE] }

\* Which of the two local SOCKS proxies answer: none, the first, or both.
ProbeResults == { {}, {DefaultProxies[2]}, {DefaultProxies[2], DefaultProxies[3]} }

Licensed == "commercial_proxies" \in Range(license_status.enabled_features)

Init ==
  /\ config \in StoredConfigs
  /\ license_status = verify_license(config).result
  /\ working \in ProbeResults
  /\ cache \in StoredCaches
  /\ now = 0
  /\ call = IdleCall
  /\ obs = NoObs
  /\ last_op = NoOp
  /\ n_calls = 0
  /\ AppIdle

-----------------------------------------------------------------------------
(* Configuration calls of VPNManager *)

BoolStr(b) == IF b THEN "True" ELSE "False"

\* VPNManager.set_license_key
set_license_key(license_key) ==
  /\ call.pc = "idle"
  /\ n_calls < MaxCalls
  /\ LET v == verify_license([config EXCEPT !.license_key = license_key])
     IN /\ config' = v.config
        /\ license_status' = v.result
  /\ UNCHANGED <<working, cache, now, call, obs, n_calls, appvars>>

\* VPNManager.get_license_status
get_license_status ==
  /\ call.pc = "idle"
  /\ n_calls < MaxCalls
  /\ LET v == verify_license(config)
     IN /\ config' = v.config
        /\ license_status' = v.result
  /\ UNCHANGED <<working, cache, now, call, obs, n_calls, appvars>>

NoCredentials == << >>

\* The service configuration after the credentials loop: only keys the service has are set.
apply_credentials(cfg, service_name, credentials) ==
  IF credentials # NoCredentials /\ cfg.service_country[service_name] # Absent
  THEN [cfg EXCEPT !.service_country[service_name] = credentials[1][2]]
  ELSE cfg

\* VPNManager.enable_commercial_proxy; a key of proxy_services that is no service
\* passes the membership test and fails with a TypeError on the item assignment.
enable_commercial_proxy_result(cfg, status, service_name, credentials) ==
  IF "commercial_proxies" \notin Range(status.enabled_features)
  THEN [config |-> cfg, ret |-> "False"]
  ELSE IF service_name \notin ProxyServicesKeys
  THEN [config |-> cfg, ret |-> "False"]
  ELSE IF service_name \notin ServiceSet
  THEN [config |-> cfg, ret |-> "TypeError"]
  ELSE [config |-> [apply_credentials(cfg, service_name, credentials)
                      EXCEPT !.service_enabled[service_name] = TRUE,
                             !.ps_enabled = TRUE,
                             !.current_service = service_name],
        ret |-> "True"]

enable_commercial_proxy(service_name, credentials) ==
  /\ call.pc = "idle"
  /\ n_calls < MaxCalls
  /\ config' = enable_commercial_proxy_result(config, license_status,
                                              service_name, credentials).config
  /\ UNCHANGED <<license_status, working, cache, now, call, obs, n_calls, appvars>>

\* Time passes between calls.
AdvanceTime ==
  /\ call.pc = "idle"
  /\ n_calls < MaxCalls
  /\ now + TickHours <= MaxHours
  /\ now' = now + TickHours
  /\ UNCHANGED <<config, license_status, working, cache, call, obs, last_op, n_calls, appvars>>

-----------------------------------------------------------------------------
(* VPNManager.get and fetch_with_retry *)

\* The locals of a call that returns.
Returned(c, content, how) == [c EXCEPT !.pc = "done", !.result = content, !.how = how]

\* A retry loop that runs once more than max_retries; RetryBound must tell it
\* from the loop of the source.
NextAttemptPcLate(a) == IF a < max_retries THEN "attempt" ELSE "after_loop"

\* The position after attempt a of the retry loop.
NextAttemptPc(a) == IF a + 1 < max_retries THEN "attempt" ELSE "after_loop"

\* An entry for the target is stored and younger than cache_expiry_hours.
HasValidEntry(target) ==
  LET entry == cache[cache_file(target)]
  IN entry.exists /\ entry.readable /\ now < entry.timestamp + cache_expiry_hours

\* fetch_with_retry from its entry to the retry loop: the cache lookup, the
\* session rotation, the proxy read and the request count.
EnterFetch(cfg, target, force_fresh, o) ==
  LET cached == get_cached_response(target, cache, now)
      o1 == [o EXCEPT !.in_fetch = TRUE,
                      !.hit_expected = ~force_fresh /\ HasValidEntry(target)]
      cfg1 == IF should_rotate_session(target, cfg)
              THEN reset_site_request_counts(rotate_proxy(cfg, working).config)
              ELSE cfg
      cfg2 == increment_site_request_count(target, cfg1, working)
  IN /\ cache' = cache
     /\ IF ~force_fresh /\ Truthy(cached)
        THEN /\ config' = cfg
             /\ obs' = [o1 EXCEPT !.fetch_cfg = cfg]
             /\ call' = [IdleCall EXCEPT !.pc = "done", !.target = target,
                                         !.force_fresh = force_fresh,
                                         !.result = cached, !.how = "cache"]
        ELSE /\ config' = cfg2
             /\ obs' = o1
             /\ call' = [IdleCall EXCEPT
                           !.pc = IF max_retries > 0 THEN "attempt" ELSE "after_loop",
                           !.target = target,
                           !.force_fresh = force_fresh,
                           !.proxy = At(cfg1.proxies, cfg1.current_proxy_index),
                           !.fingerprint = get_current_fingerprint(cfg2)]

\* VPNManager.get up to its first request.
Get(target, force_fresh) ==
  /\ call.pc = "idle"
  /\ n_calls < MaxCalls
  /\ n_calls' = n_calls + 1
  /\ IF config.ps_enabled /\ Licensed
     THEN /\ call' = [IdleCall EXCEPT !.pc = "get_commercial", !.target = target,
                                      !.force_fresh = force_fresh]
          /\ obs' = [NoObs EXCEPT !.hit_expected = ~force_fresh /\ HasValidEntry(target)]
          /\ UNCHANGED <<config, cache>>
     ELSE EnterFetch(config, target, force_fresh, NoObs)
  /\ UNCHANGED <<license_status, working, now, last_op, appvars>>

\* VPNManager.get: the commercial proxy service first; its content is returned
\* when truthy, else fetch_with_retry takes over.
GetCommercial(outcome) ==
  /\ call.pc = "get_commercial"
  /\ LET r == fetch_using_commercial_proxy(config, outcome)
         o == [obs EXCEPT !.get_comm_sent = @ + (IF r.sent THEN 1 ELSE 0)]
     IN IF Truthy(r.content)
        THEN /\ config' = r.config
             /\ call' = Returned(call, r.content, "get_commercial")
             /\ obs' = o
             /\ cache' = cache
        ELSE EnterFetch(r.config, call.target, call.force_fresh, o)
  /\ UNCHANGED <<license_status, working, now, last_op, n_calls, appvars>>

\* The end of a blocked iteration: rotate the standard proxy when
\* auto_rotate_on_block is set, then go on with the next attempt.
BlockedTail(cfg, c) ==
  LET r == IF cfg.auto_rotate_on_block
           THEN rotate_proxy(cfg, working)
           ELSE [config |-> cfg, ret |-> c.proxy]
  IN /\ config' = r.config
     /\ call' = [c EXCEPT !.proxy = r.ret, !.attempt = @ + 1, !.pc = NextAttemptPc(c.attempt)]

\* One iteration of the retry loop: the request and what follows from its outcome.
Attempt(outcome) ==
  /\ call.pc = "attempt"
  /\ LET cfg0 == get_random_user_agent(config)
         blocked == outcome.kind = "response" /\ is_blocked(outcome)
         o == [obs EXCEPT !.std_sent = @ + 1,
                          !.last_req = [set |-> TRUE, proxy |-> call.proxy, blocked |-> blocked],
                          !.all_blocked = @ /\ blocked]
         settings == site_settings_for(get_domain(call.target))
     IN IF outcome.kind # "response"
        THEN \* RequestException: rotate the proxy on connection errors and timeouts
             LET r == IF outcome.kind \in {"ConnectionError", "Timeout"}
                      THEN rotate_proxy(cfg0, working)
                      ELSE [config |-> cfg0, ret |-> call.proxy]
             IN /\ config' = r.config
                /\ call' = [call EXCEPT !.proxy = r.ret, !.attempt = @ + 1,
                                        !.pc = NextAttemptPc(call.attempt)]
                /\ obs' = o
                /\ cache' = cache
        ELSE IF blocked
        THEN LET first == cfg0.fp_enabled /\ call.attempt = 0
                 rf == IF first
                       THEN rotate_fingerprint(cfg0, working)
                       ELSE [config |-> cfg0, ret |-> call.fingerprint]
                 c1 == [call EXCEPT !.fingerprint = rf.ret]
             IN /\ obs' = o
                /\ cache' = cache
                /\ IF first /\ rf.config.ps_enabled
                   THEN /\ config' = rf.config
                        /\ call' = [c1 EXCEPT !.commercial_proxy_tried = TRUE,
                                              !.attempt = @ + 1,
                                              !.pc = NextAttemptPc(call.attempt)]
                   ELSE IF /\ ~c1.commercial_proxy_tried
                           /\ rf.config.ps_enabled
                           /\ settings.high_scrutiny
                   THEN /\ config' = rf.config
                        /\ call' = [c1 EXCEPT !.commercial_proxy_tried = TRUE,
                                              !.pc = "commercial_loop",
                                              !.svc_i = 1]
                   ELSE BlockedTail(rf.config, c1)
        ELSE IF outcome.status_code = 200
        THEN /\ config' = cfg0
             /\ cache' = cache_response(call.target, outcome.text, cache, now)
             /\ call' = Returned(call, Some(outcome.text), "network")
             /\ obs' = [o EXCEPT !.net = [set |-> TRUE, resp |-> outcome]]
        ELSE /\ config' = cfg0
             /\ call' = [call EXCEPT !.attempt = @ + 1, !.pc = NextAttemptPc(call.attempt)]
             /\ obs' = o
             /\ cache' = cache
  /\ UNCHANGED <<license_status, working, now, last_op, n_calls, appvars>>

\* The enabled services still to be tried by the loop over the services.
ServicesLeft == {i \in call.svc_i..Len(Services) : config.service_enabled[Services[i]]}

\* The loop over the commercial services of a blocked iteration: the next
\* enabled service is made current and tried.
CommercialFetch(outcome) ==
  /\ call.pc = "commercial_loop"
  /\ ServicesLeft # {}
  /\ LET i == Min(ServicesLeft)
         service_name == Services[i]
         r == fetch_using_service(service_name,
                                  [config EXCEPT !.current_service = service_name], outcome)
     IN /\ config' = r.config
        /\ IF Truthy(r.content)
           THEN /\ cache' = cache_response(call.target, r.content.text, cache, now)
                /\ call' = Returned(call, r.content, "commercial")
                /\ obs' = [obs EXCEPT !.comm_sent = @ + 1,
                                      !.net = [set |-> TRUE, resp |-> outcome]]
           ELSE /\ cache' = cache
                /\ call' = [call EXCEPT !.svc_i = i + 1]
                /\ obs' = [obs EXCEPT !.comm_sent = @ + 1]
  /\ UNCHANGED <<license_status, working, now, last_op, n_calls, appvars>>

\* No service is left: the blocked iteration ends as without commercial proxies.
CommercialLoopExit ==
  /\ call.pc = "commercial_loop"
  /\ ServicesLeft = {}
  /\ BlockedTail(config, call)
  /\ UNCHANGED <<license_status, working, cache, now, obs, last_op, n_calls, appvars>>

\* The fallback after the retries: the cached response, else None.
Fallback(cfg, c, o) ==
  LET cached == get_cached_response(c.target, cache, now)
  IN /\ config' = cfg
     /\ cache' = cache
     /\ obs' = o
     /\ call' = IF Truthy(cached)
                THEN Returned(c, cached, "fallback_cache")
                ELSE Returned(c, NoContent, "none")

\* After the loop, commercial proxies not tried yet: the last resort through the
\* current commercial service, then the fallback.
LastResort(outcome) ==
  /\ call.pc = "after_loop"
  /\ ~call.commercial_proxy_tried /\ config.ps_enabled
  /\ LET r == fetch_using_commercial_proxy(config, outcome)
         o == [obs EXCEPT !.comm_sent = @ + (IF r.sent THEN 1 ELSE 0)]
     IN IF Truthy(r.content)
        THEN /\ config' = r.config
             /\ cache' = cache_response(call.target, r.content.text, cache, now)
             /\ call' = Returned(call, r.content, "commercial")
             /\ obs' = [o EXCEPT !.net = [set |-> TRUE, resp |-> outcome]]
        ELSE Fallback(r.config, call, o)
  /\ UNCHANGED <<license_status, working, now, last_op, n_calls, appvars>>

\* After the loop, without a last resort.
AllRetriesFailed ==
  /\ call.pc = "after_loop"
  /\ ~(~call.commercial_proxy_tried /\ config.ps_enabled)
  /\ Fallback(config, call, obs)
  /\ UNCHANGED <<license_status, working, now, last_op, n_calls, appvars>>

\* The caller takes the result; the manager is idle again.
Return ==
  /\ call.pc = "done"
  /\ call' = IdleCall
  /\ obs' = NoObs
  /\ UNCHANGED <<config, license_status, working, cache, now, last_op, n_calls, appvars>>

-----------------------------------------------------------------------------
(* Specifications *)

\* The license keys and service names the calls are made with.
LicenseKeys == {"", TestKey}

ServiceNames == {"brightdata", "zenrows"}

Next ==
  \/ \E k \in LicenseKeys : set_license_key(k) /\ UNCHANGED last_op
  \/ \E s \in ServiceNames : enable_commercial_proxy(s, NoCredentials) /\ UNCHANGED last_op
  \/ AdvanceTime
  \/ \E t \in Targets, ff \in BOOLEAN : Get(t, ff)
  \/ \E x \in Outcomes : GetCommercial(x)
  \/ \E x \in Outcomes : Attempt(x)
  \/ \E x \in Outcomes : CommercialFetch(x)
  \/ CommercialLoopExit
  \/ \E x \in Outcomes : LastResort(x)
  \/ AllRetriesFailed
  \/ Return

Spec == Init /\ [][Next]_vars

-----------------------------------------------------------------------------
(* The retry loop on its own: get calls from the stored state of a session,
   with a commercial service already enabled in some of them; every request is
   answered or times out, so a call in progress goes on. *)

\* The stored configuration of a session that had the test license and enabled
\* Bright Data; the key may have been cleared since.
WithBrightdata(cfg, license_key) ==
  verify_license([cfg EXCEPT !.license_key = license_key,
                             !.ps_enabled = TRUE,
                             !.service_enabled["brightdata"] = TRUE,
                             !.current_service = "brightdata"]).config

RetryConfigs ==
  { DefaultConfig,
    [DefaultConfig EXCEPT !.fp_enabled = FALSE],
    WithBrightdata(DefaultConfig, ""),
    WithBrightdata([DefaultConfig EXCEPT !.fp_enabled = FALSE], ""),
    WithBrightdata(DefaultConfig, TestKey) }

InitRetry ==
  /\ config \in RetryConfigs
  /\ license_status = verify_license(config).result
  /\ working = {DefaultProxies[2]}
  /\ cache \in StoredCaches
  /\ now = 0
  /\ call = IdleCall
  /\ obs = NoObs
  /\ last_op = NoOp
  /\ n_calls = 0
  /\ AppIdle

CallStep ==
  \/ \E x \in Outcomes : GetCommercial(x)
  \/ \E x \in Outcomes : Attempt(x)
  \/ \E x \in Outcomes : CommercialFetch(x)
  \/ CommercialLoopExit
  \/ \E x \in Outcomes : LastResort(x)
  \/ AllRetriesFailed

NextRetry ==
  \/ \E t \in Targets, ff \in BOOLEAN : Get(t, ff)
  \/ CallStep
  \/ Return

SpecRetry == InitRetry /\ [][NextRetry]_vars /\ WF_vars(CallStep)

-----------------------------------------------------------------------------
(* The configuration calls on their own, each recording what it returned. *)

\* License keys: none, the two built-in keys, keys around their first eight
\* characters, and keys that match nothing.
ConfigKeys ==
  { "", TestKey, DevKey,
    "TEST-GRA", "TEST-GRAVY-JOBS-99999", "DEV-GRAV", "DEV-GRAVY-X",
    "TEST-GR", "DEV-GRA", "test-gravy-jobs-12345", "XTEST-GRAVY-JOBS-12345", "INVALID-KEY" }

\* Service names: the six services, the two other keys of proxy_services, and a
\* name proxy_services does not have.
ConfigServiceNames == ServiceSet \cup {"enabled", "current_service", "nordvpn"}

\* Keyword arguments of enable_commercial_proxy.
CredentialSets == { NoCredentials, << <<"country", "de">> >> }

InitConfig ==
  /\ config = DefaultConfig
  /\ license_status = verify_license(config).result
  /\ working = {}
  /\ cache = [f \in CacheFiles |-> NoEntry]
  /\ now = 0
  /\ call = IdleCall
  /\ obs = NoObs
  /\ last_op = NoOp
  /\ n_calls = 0
  /\ AppIdle

SetLicenseKey(license_key) ==
  /\ set_license_key(license_key)
  /\ last_op' = [op |-> "set_license_key", arg |-> license_key,
                 ret |-> BoolStr(license_status'.valid)]

GetLicenseStatus ==
  /\ get_license_status
  /\ last_op' = [op |-> "get_license_status", arg |-> "",
                 ret |-> BoolStr(license_status'.valid)]

EnableCommercialProxy(service_name, credentials) ==
  /\ enable_commercial_proxy(service_name, credentials)
  /\ last_op' = [op |-> "enable_commercial_proxy", arg |-> service_name,
                 ret |-> enable_commercial_proxy_result(config, license_status,
                                                        service_name, credentials).ret]

NextConfig ==
  \/ \E k \in ConfigKeys : SetLicenseKey(k)
  \/ GetLicenseStatus
  \/ \E s \in ConfigServiceNames, cr \in CredentialSets : EnableCommercialProxy(s, cr)

SpecConfig == InitConfig /\ [][NextConfig]_vars

-----------------------------------------------------------------------------
(* Properties *)

\* A call of fetch_with_retry that got no content from the network and finds no
\* cached response.
NothingAvailable ==
  /\ call.pc = "done"
  /\ obs.in_fetch
  /\ ~obs.net.set
  /\ ~Truthy(get_cached_response(call.target, cache, now))

\* The steps a call in progress can still take, at most: Len(Services) + 2 for
\* each iteration of the retry loop that is left, one after the loop.
Remaining ==
  LET stride == Len(Services) + 2
  IN CASE call.pc = "get_commercial" -> max_retries * stride + 2
       [] call.pc = "attempt" -> (max_retries - call.attempt) * stride + 1
       [] call.pc = "commercial_loop" -> (max_retries - call.attempt) * stride + 1 - call.svc_i
       [] call.pc = "after_loop" -> 1
       [] OTHER -> 0

InProgress == call.pc \notin {"idle", "done"}

\* C1: a call of fetch_with_retry sends at most max_retries standard requests,
\* it returns None when no request yields content and no cached response is
\* available, and it terminates: a call in progress can always take a step, and
\* every step leaves fewer steps to take.
C1_RetryBound ==
  /\ [](obs.std_sent <= max_retries)
  /\ [](NothingAvailable => call.result = NoContent)
  /\ [](InProgress => Remaining > 0 /\ ENABLED CallStep)
  /\ [][InProgress => Remaining' < Remaining]_vars

\* All max_retries requests were sent, none gave content, and None is returned.
C1_Witness ==
  /\ NothingAvailable
  /\ obs.std_sent = max_retries
  /\ call.result = NoContent

\* C2: the content fetch_with_retry returns or caches is never the body of a
\* blocked response (403, 429, 503, or a captcha/blocked/automated marker),
\* on the standard and on the commercial path.
C2_NoBlockedContent == obs.net.set => ~is_blocked(obs.net.resp)

\* A commercial service is enabled in the configuration.
SomeServiceEnabled ==
  config.ps_enabled /\ \E s \in ServiceSet : config.service_enabled[s]

\* C3: with commercial proxies enabled and every standard attempt blocked,
\* fetch_with_retry has made a commercial fetch before it returns.
C3_CommercialTried ==
  ( /\ call.pc = "done"
    /\ obs.in_fetch
    /\ SomeServiceEnabled
    /\ obs.std_sent > 0
    /\ obs.all_blocked )
  => obs.comm_sent >= 1

\* The proxies of the configuration that work, by position.
WorkingProxies ==
  {i \in 1..Len(config.proxies) : is_proxy_working(config.proxies[i], working)}

\* C4: after a blocked attempt with auto_rotate_on_block set and two working
\* proxies or more, the next attempt goes through a different proxy.
C4_ProxyChanges ==
  ( /\ call.pc = "attempt"
    /\ obs.last_req.set
    /\ obs.last_req.blocked
    /\ config.auto_rotate_on_block
    /\ Cardinality(WorkingProxies) >= 2 )
  => call.proxy # obs.last_req.proxy

\* C5: when every retry failed, fetch_with_retry returns the stored copy of the
\* target, expired or not; it returns None only when no copy with a body is
\* stored.
C5_StoredCopyFallback ==
  LET entry == cache[cache_file(call.target)]
  IN (call.pc = "done" /\ call.how \in {"fallback_cache", "none"})
     => /\ (entry.exists /\ entry.content # << >>) => call.result = Some(entry.content)
        /\ call.result = NoContent => (~entry.exists \/ entry.content = << >>)

\* C6: fetch_with_retry called with force_fresh unset and a valid cache entry
\* returns the cached content, sends no request and leaves the request counts
\* and the rotation positions as they were.
C6_CacheHit ==
  (obs.in_fetch /\ obs.hit_expected)
  => /\ call.pc = "done"
     /\ call.result = Some(cache[cache_file(call.target)].content)
     /\ obs.std_sent = 0 /\ obs.comm_sent = 0
     /\ config.site_request_counts = obs.fetch_cfg.site_request_counts
     /\ config.total_request_count = obs.fetch_cfg.total_request_count
     /\ config.current_proxy_index = obs.fetch_cfg.current_proxy_index
     /\ config.current_user_agent_index = obs.fetch_cfg.current_user_agent_index
     /\ config.current_fingerprint_index = obs.fetch_cfg.current_fingerprint_index

\* C7: VPNManager.get called with force_fresh unset and a valid cache entry sends
\* no HTTP request, whatever the commercial and license settings: none of its
\* own through a commercial service, the rest being fetch_with_retry's (C6).
C7_GetCacheHit == obs.hit_expected => obs.get_comm_sent = 0

\* C8: no request goes through a commercial proxy service unless the license
\* status lists commercial_proxies.
C8_LicensedCommercial ==
  (obs.comm_sent + obs.get_comm_sent > 0) => Licensed

\* The license key is one of the two built-in keys or begins with the first
\* eight characters of one.
KeyAccepted(license_key) ==
  \E valid_key \in {"TEST-GRAVY-JOBS-12345", "DEV-GRAVY-JOBS-ACCESS"} :
    \/ license_key = valid_key
    \/ Len(license_key) >= 8 /\ SubSeq(license_key, 1, 8) = SubSeq(valid_key, 1, 8)

C10_EnableOutcome ==
  [][\A s \in ConfigServiceNames, cr \in CredentialSets :
       EnableCommercialProxy(s, cr)
       => IF ~Licensed \/ s \notin ServiceSet
          THEN last_op'.ret = "False" /\ config' = config
          ELSE /\ last_op'.ret = "True"
               /\ config'.service_enabled[s]
               /\ config'.ps_enabled
               /\ config'.current_service = s]_vars

-----------------------------------------------------------------------------
(* Proxy rotation and add_proxy on their own; no commercial service is
   enabled, so VPNManager.rotate_proxy is rotate_proxy(config).  Which proxies
   answer the probe changes between calls. *)

\* The proxies list grows up to MaxProxies entries.
MaxProxies == 5

\* Proxies passed to add_proxy: the direct connection, one already listed, and
\* new ones.
ProxyPool ==
  { None, DefaultProxies[2],
    "socks5://10.0.0.1:1080", "socks5://10.0.0.2:1080", "socks5://10.0.0.3:1080" }

InitProxy ==
  /\ config = DefaultConfig
  /\ license_status = verify_license(config).result
  /\ working \in SUBSET (ProxyPool \ {None})
  /\ cache = [f \in CacheFiles |-> NoEntry]
  /\ now = 0
  /\ call = IdleCall
  /\ obs = NoObs
  /\ last_op = NoOp
  /\ n_calls = 0
  /\ AppIdle

\* rotate_proxy(config), the standard branch of VPNManager.rotate_proxy
RotateProxy ==
  /\ LET r == rotate_proxy(config, working)
     IN /\ config' = r.config
        /\ last_op' = [op |-> "rotate_proxy", arg |-> "", ret |-> r.ret]
  /\ UNCHANGED <<license_status, working, cache, now, call, obs, n_calls, appvars>>

\* VPNManager.add_proxy
AddProxy(proxy_config) ==
  /\ Len(config.proxies) < MaxProxies
  /\ config' = IF proxy_config \notin Range(config.proxies)
               THEN [config EXCEPT !.proxies = Append(@, proxy_config)]
               ELSE config
  /\ last_op' = [op |-> "add_proxy", arg |-> proxy_config, ret |-> None]
  /\ UNCHANGED <<license_status, working, cache, now, call, obs, n_calls, appvars>>

\* A proxy comes up or goes down between two calls.
ProbeChange(proxy) ==
  /\ working' = IF proxy \in working THEN working \ {proxy} ELSE working \cup {proxy}
  /\ UNCHANGED <<config, license_status, cache, now, call, obs, last_op, n_calls, appvars>>

NextProxy ==
  \/ RotateProxy
  \/ \E p \in ProxyPool : AddProxy(p)
  \/ \E p \in ProxyPool \ {None} : ProbeChange(p)

SpecProxy == InitProxy /\ [][NextProxy]_vars

\* The proxy at the 0-based position i of the configuration answers the probe.
WorksAt(cfg, i) == is_proxy_working(At(cfg.proxies, i), working)

\* C11: rotate_proxy stores in current_proxy_index the first working proxy of
\* the cyclic scan that starts just after the current index, and after any
\* sequence of rotate_proxy and add_proxy calls current_proxy_index is a valid
\* index of the proxies list.
C11_FirstWorkingProxy ==
  /\ [](config.current_proxy_index \in 0..(Len(config.proxies) - 1))
  /\ [][RotateProxy =>
         LET n == Len(config.proxies)
             from == config.current_proxy_index
             steps == ((config'.current_proxy_index - from - 1) % n) + 1
         IN /\ WorksAt(config, config'.current_proxy_index)
            /\ \A k \in 1..(steps - 1) : ~WorksAt(config, (from + k) % n)
            /\ config'.proxies = config.proxies]_vars

\* With the list grown to MaxProxies entries and the second local proxy down, a
\* rotation selected the first local proxy.
C11_Witness ==
  /\ last_op.op = "rotate_proxy"
  /\ Len(config.proxies) = MaxProxies
  /\ config.current_proxy_index = 1
  /\ last_op.ret = DefaultProxies[2]
  /\ DefaultProxies[3] \notin working

-----------------------------------------------------------------------------
(* The request count and the fingerprint rotation on their own: requests are
   counted one after the other, with manual fingerprint rotations and session
   resets in between. *)

\* Requests counted per behaviour.
MaxRequests == 21

\* Stored configurations with the advanced_scraping feature, with and without
\* fingerprinting and the proxy rotation that goes with it.
CountConfigs ==
  { verify_license([c EXCEPT !.license_key = TestKey]).config :
      c \in { DefaultConfig,
              [DefaultConfig EXCEPT !.fp_enabled = FALSE],
              [DefaultConfig EXCEPT !.rotate_ip_with_fingerprint = FALSE] } }

InitCount ==
  /\ config \in CountConfigs
  /\ license_status = verify_license(config).result
  /\ working \in { {}, {DefaultProxies[2]} }
  /\ cache = [f \in CacheFiles |-> NoEntry]
  /\ now = 0
  /\ call = IdleCall
  /\ obs = NoObs
  /\ last_op = NoOp
  /\ n_calls = 0
  /\ AppIdle

\* increment_site_request_count(url, config)
CountRequest(target) ==
  /\ config.total_request_count < MaxRequests
  /\ config' = increment_site_request_count(target, config, working)
  /\ last_op' = [op |-> "increment_site_request_count", arg |-> "", ret |-> None]
  /\ UNCHANGED <<license_status, working, cache, now, call, obs, n_calls, appvars>>

\* VPNManager.rotate_fingerprint
ManualRotateFingerprint ==
  /\ config' = IF /\ config.fp_enabled
                  /\ "advanced_scraping" \in Range(license_status.enabled_features)
               THEN rotate_fingerprint(config, working).config
               ELSE config
  /\ last_op' = [op |-> "rotate_fingerprint", arg |-> "", ret |-> None]
  /\ UNCHANGED <<license_status, working, cache, now, call, obs, n_calls, appvars>>

\* VPNManager.reset_session
ResetSession ==
  /\ config' = reset_site_request_counts(config)
  /\ last_op' = [op |-> "reset_session", arg |-> "", ret |-> None]
  /\ UNCHANGED <<license_status, working, cache, now, call, obs, n_calls, appvars>>

NextCount ==
  \/ \E t \in Targets : CountRequest(t)
  \/ ManualRotateFingerprint
  \/ ResetSession

SpecCount == InitCount /\ [][NextCount]_vars

\* C12: with fingerprinting enabled, a counted request that brings
\* total_request_count to a multiple of fingerprint_rotation_frequency advances
\* the fingerprint index by one modulo the number of fingerprints, and no other
\* counted request moves it.
C12_RotationEveryFrequency ==
  [][\A t \in Targets :
       CountRequest(t) =>
         /\ config'.total_request_count = config.total_request_count + 1
         /\ config'.current_fingerprint_index =
              IF /\ config.fp_enabled
                 /\ config'.total_request_count % 10 = 0
              THEN (config.current_fingerprint_index + 1) % 5
              ELSE config.current_fingerprint_index]_vars

\* The twentieth request was counted and the index stands at its second
\* rotation.
C12_Witness ==
  /\ last_op.op = "increment_site_request_count"
  /\ config.fp_enabled
  /\ config.total_request_count = 20
  /\ config.current_fingerprint_index = 2

-----------------------------------------------------------------------------
\* C13: with rotate_ip_with_fingerprint set and standard proxies in use, a step
\* of a call that rotates the fingerprint also rotates the proxy, and the
\* request that follows goes out through the proxy the configuration then
\* selects.
C13_RequestThroughNewProxy ==
  [][( /\ config'.current_fingerprint_index # config.current_fingerprint_index
       /\ config.rotate_ip_with_fingerprint
       /\ ~config.ps_enabled
       /\ call'.pc = "attempt" )
     => call'.proxy = At(config'.proxies, config'.current_proxy_index)]_vars

-----------------------------------------------------------------------------
(* JobScraper.scrape_all_sources (src/job_scraper.py): the enabled site
   scrapers are submitted to a pool of max_workers threads, and the calling
   thread handles the futures as they complete.  An access of a thread to a
   shared object lasts from its Begin step to its End step. *)

\* ThreadPoolExecutor(max_workers=4)
max_workers == 4

\* The VPN layer is not running.
NetIdle ==
  /\ config = DefaultConfig
  /\ license_status = verify_license(config).result
  /\ working = {}
  /\ cache = [f \in CacheFiles |-> NoEntry]
  /\ now = 0
  /\ call = IdleCall
  /\ obs = NoObs
  /\ last_op = NoOp
  /\ n_calls = 0

\* The url of a posting: the site and the number of the posting there.
JobUrl(s, n) == <<s, n>>

\* A job dictionary: its url and the time it was found (0: no 'date' key, which
\* sorts as the empty string, below every date).
Job(s, n, date) == [url |-> JobUrl(s, n), date |-> date]

\* The jobs loaded by load_previous_jobs: the first posting of every site.
PreviousJobs == [i \in 1..Len(Sources) |-> Job(Sources[i], 1, 1)]

\* What a site scraper returns when it does not raise: a known and a new posting.
ScrapedJobs(s) == <<Job(s, 1, 2), Job(s, 2, 2)>>

\* config["job_sources"]: the sets of sources that are switched on.
EnabledSets ==
  { SourceSet,
    SourceSet \ {"stackoverflow"},
    {"indeed", "linkedin"},
    {"remoteok"} }

Acc(obj, mode) == [obj |-> obj, mode |-> mode]

\* A variant in which every site scraper goes through the VPN manager;
\* NoSharedWrites must tell it from the scrapers of the source.
WorkerAccessAllVpn(s) ==
  {Acc("vpn_config", "write"), Acc("config", "read"), Acc("headers", "read")}

\* The shared objects a site scraper touches: scrape_indeed fetches through
\* _get_with_vpn and rotates the proxy, which write the VPN manager's
\* configuration; the others use requests.get with self.headers.
WorkerAccess(s) ==
  IF s = "indeed"
  THEN {Acc("vpn_config", "write"), Acc("config", "read"), Acc("headers", "read")}
  ELSE {Acc("config", "read"), Acc("headers", "read")}

\* The calling thread, handling a future that returned jobs.
MainAccess == {Acc("previous_jobs", "read"), Acc("new_jobs", "write")}

is_new_job(job, previous_jobs) ==
  \A i \in 1..Len(previous_jobs) : previous_jobs[i].url # job.url

RECURSIVE NewJobsOf(_, _)
NewJobsOf(jobs, previous_jobs) ==
  IF jobs = << >> THEN << >>
  ELSE (IF is_new_job(Head(jobs), previous_jobs) THEN <<Head(jobs)>> ELSE << >>)
         \o NewJobsOf(Tail(jobs), previous_jobs)

\* A handling that lets the exception of a scraper end the collection;
\* OthersCollected must tell it from the handling of the source.
collect_result_abort(m, fut) ==
  IF fut.raised
  THEN [m EXCEPT !.pc = "done"]
  ELSE [m EXCEPT !.new_jobs = @ \o NewJobsOf(fut.jobs, m.previous_jobs)]

\* The body of the as_completed loop for one future.
collect_result(m, fut) ==
  IF fut.raised
  THEN [m EXCEPT !.errors = @ + 1]
  ELSE [m EXCEPT !.new_jobs = @ \o NewJobsOf(fut.jobs, m.previous_jobs)]

Running == {s \in SourceSet : futures[s].state = "running"}

Submitted == {s \in SourceSet : futures[s].state # "none"}

InitScrape ==
  /\ NetIdle
  /\ futures = NoFutures
  /\ access = NoAccess
  /\ curation = NoCuration
  /\ crawl = NoCrawl
  /\ scraper = [IdleScraper EXCEPT !.previous_jobs = PreviousJobs]

\* scrape_all_sources up to the as_completed loop: every enabled scraper is submitted.
ScrapeAllSources(enabled) ==
  /\ scraper.pc = "idle"
  /\ scraper' = [scraper EXCEPT !.pc = "collecting", !.new_jobs = << >>]
  /\ futures' = [s \in SourceSet |->
                   IF s \in enabled THEN [futures[s] EXCEPT !.state = "pending"]
                   ELSE futures[s]]
  /\ UNCHANGED <<access, netvars, curation, crawl>>

\* A free worker thread takes the oldest pending task.
StartTask(s) ==
  /\ futures[s].state = "pending"
  /\ Cardinality(Running) < max_workers
  /\ \A i \in 1..Len(Sources) :
       futures[Sources[i]].state = "pending" => i >= IndexOf(Sources, s) + 1
  /\ futures' = [futures EXCEPT ![s].state = "running"]
  /\ UNCHANGED <<access, scraper, netvars, curation, crawl>>

BeginAccess(s, a) ==
  /\ futures[s].state = "running"
  /\ access[s] = {}
  /\ a \in WorkerAccess(s)
  /\ access' = [access EXCEPT ![s] = {a}]
  /\ UNCHANGED <<futures, scraper, netvars, curation, crawl>>

EndAccess(s) ==
  /\ access[s] # {}
  /\ access' = [access EXCEPT ![s] = {}]
  /\ UNCHANGED <<futures, scraper, netvars, curation, crawl>>

\* The scraper returns its jobs or raises.
FinishTask(s, raised) ==
  /\ futures[s].state = "running"
  /\ access[s] = {}
  /\ futures' = [futures EXCEPT ![s] = [state |-> "finished", raised |-> raised,
                                        jobs |-> IF raised THEN << >> ELSE ScrapedJobs(s)]]
  /\ UNCHANGED <<access, scraper, netvars, curation, crawl>>

\* as_completed yields a finished future; future.result() returns or raises.
CollectBegin(s) ==
  /\ scraper.pc = "collecting"
  /\ scraper.cur = "None"
  /\ s \notin scraper.handled
  /\ futures[s].state = "finished"
  /\ scraper' = [scraper EXCEPT !.cur = s]
  /\ access' = [access EXCEPT !["main"] = IF futures[s].raised THEN {} ELSE MainAccess]
  /\ UNCHANGED <<futures, netvars, curation, crawl>>

CollectEnd ==
  /\ scraper.pc = "collecting"
  /\ scraper.cur # "None"
  /\ scraper' = [collect_result(scraper, futures[scraper.cur])
                   EXCEPT !.cur = "None", !.handled = @ \cup {scraper.cur}]
  /\ access' = [access EXCEPT !["main"] = {}]
  /\ UNCHANGED <<futures, netvars, curation, crawl>>

\* as_completed is exhausted: the pool shuts down and new_jobs is returned.
ReturnNewJobs ==
  /\ scraper.pc = "collecting"
  /\ scraper.cur = "None"
  /\ scraper.handled = Submitted
  /\ scraper' = [scraper EXCEPT !.pc = "done"]
  /\ UNCHANGED <<futures, access, netvars, curation, crawl>>

NextScrape ==
  \/ \E enabled \in EnabledSets : ScrapeAllSources(enabled)
  \/ \E s \in SourceSet : StartTask(s)
  \/ \E s \in SourceSet : \E a \in WorkerAccess(s) : BeginAccess(s, a)
  \/ \E s \in SourceSet : EndAccess(s)
  \/ \E s \in SourceSet, raised \in BOOLEAN : FinishTask(s, raised)
  \/ \E s \in SourceSet : CollectBegin(s)
  \/ CollectEnd
  \/ ReturnNewJobs

SpecScrape == InitScrape /\ [][NextScrape]_vars

\* Two accesses to one object conflict when at least one of them writes.
Conflict(a1, a2) == a1.obj = a2.obj /\ (a1.mode = "write" \/ a2.mode = "write")

\* The steps of the calling thread inside the as_completed loop.
MainStep == (\E s \in SourceSet : CollectBegin(s)) \/ CollectEnd \/ ReturnNewJobs

(* C14: during scrape_all_sources at most 4 site scrapers run at once, no two
   threads are inside conflicting accesses to the same object (new_jobs,
   previous_jobs, the VPN manager's configuration), no worker writes
   new_jobs, and new_jobs changes only in a step of the calling thread that
   holds its write access. *)
C14_BoundedRaceFree ==
  /\ [](Cardinality(Running) <= 4)
  /\ [](\A t1 \in Threads : \A t2 \in Threads \ {t1} :
          \A a1 \in access[t1] : \A a2 \in access[t2] : ~Conflict(a1, a2))
  /\ [](\A s \in SourceSet : Acc("new_jobs", "write") \notin access[s])
  /\ [][scraper'.new_jobs # scraper.new_jobs =>
          \/ scraper.pc = "idle"
          \/ Acc("new_jobs", "write") \in access["main"]]_vars

\* Four scrapers run while linkedin waits for a thread; the indeed worker is
\* writing the VPN manager's configuration and the calling thread is
\* appending the jobs of a finished scraper.
C14_Witness ==
  /\ Cardinality(Running) = 4
  /\ futures["linkedin"].state = "pending"
  /\ Acc("vpn_config", "write") \in access["indeed"]
  /\ Acc("new_jobs", "write") \in access["main"]
  /\ \E s \in Running \ {"indeed"} : access[s] # {}

(* C15: when scrape_all_sources has returned, every submitted scraper has
   finished, the new jobs of every scraper that did not raise are in
   new_jobs, and each raised exception was caught and logged once; while it
   has not returned and every scraper has finished, the calling thread can
   take its next step. *)
C15_OthersCollected ==
  /\ [](scraper.pc = "done" =>
          /\ \A s \in Submitted : futures[s].state = "finished"
          /\ \A s \in Submitted :
               ~futures[s].raised => Job(s, 2, 2) \in Range(scraper.new_jobs)
          /\ scraper.errors = Cardinality({s \in Submitted : futures[s].raised}))
  /\ []((scraper.pc = "collecting" /\ \A s \in Submitted : futures[s].state = "finished")
          => ENABLED MainStep)

\* All six scrapers ran, indeed and remoteok raised, and the call returned
\* with the new jobs of the other four.
C15_Witness ==
  /\ scraper.pc = "done"
  /\ Submitted = SourceSet
  /\ futures["indeed"].raised
  /\ futures["remoteok"].raised
  /\ scraper.errors = 2
  /\ Len(scraper.new_jobs) = 4
  /\ Job("linkedin", 2, 2) \in Range(scraper.new_jobs)

-----------------------------------------------------------------------------
(* JobScraper.save_jobs (src/job_scraper.py and src/gravy_jobs_app.py, the same
   code): the previous and the new jobs are joined, reduced to the first job
   of every url, sorted by date with the newest first, cut to 1000 jobs,
   written to the data file and kept as previous_jobs and all_jobs. *)

\* sorted(...)[:1000]
SaveLimit == 1000

\* The values of the sort key x.get('date', ''): 0 stands for the empty string
\* of a job without a date, the others for "%Y-%m-%d %H:%M:%S" stamps in order.
Dates == 0..3

\* A data file of n jobs of one site, as a long-running installation has it.
ManyJobs(n) == [i \in 1..n |-> Job("craigslist", i, i % 3)]

\* The data files a session starts from: none, one written by save_jobs, one
\* edited by hand (a url twice, dates out of order), and one at the limit.
StoredJobLists ==
  { << >>,
    <<Job("craigslist", 1, 2), Job("indeed", 1, 1)>>,
    <<Job("craigslist", 1, 1), Job("indeed", 1, 3), Job("craigslist", 1, 2)>>,
    ManyJobs(SaveLimit) }

\* The jobs the scrapers of one run can find.
FoundPool ==
  { Job("craigslist", 1, 3), Job("indeed", 2001, 3),
    Job("indeed", 2001, 2), Job("remoteok", 2002, 0) }

FoundLists ==
  {<< >>} \cup {<<a>> : a \in FoundPool} \cup {<<a, b>> : a \in FoundPool, b \in FoundPool}

\* A reduction that keeps the last job of every url; FirstKept must tell it
\* from the loop of the source.
unique_jobs_last(all_jobs) ==
  LET last(i) == \A j \in (i + 1)..Len(all_jobs) : all_jobs[j].url # all_jobs[i].url
      idx == SelectSeq([i \in 1..Len(all_jobs) |-> i], last)
  IN  [k \in 1..Len(idx) |-> all_jobs[idx[k]]]

\* The loop over all_jobs: a job is appended unless its url is in unique_urls,
\* that is, unless an earlier job has the url.
unique_jobs(all_jobs) ==
  LET first(i) == \A j \in 1..(i - 1) : all_jobs[j].url # all_jobs[i].url
      idx == SelectSeq([i \in 1..Len(all_jobs) |-> i], first)
  IN  [k \in 1..Len(idx) |-> all_jobs[idx[k]]]

\* sorted(jobs, key=date, reverse=True) for the keys d, d - 1, ..., 0: the
\* sort is stable, so jobs of one date keep their order.
RECURSIVE sorted_by_date(_, _)
sorted_by_date(jobs, d) ==
  IF d < 0 THEN << >>
  ELSE SelectSeq(jobs, LAMBDA job : job.date = d) \o sorted_by_date(jobs, d - 1)

\* jobs[:n]
Slice(jobs, n) == SubSeq(jobs, 1, IF n < Len(jobs) THEN n ELSE Len(jobs))

\* The list save_jobs writes.
jobs_to_save(previous_jobs, new_jobs) ==
  Slice(sorted_by_date(unique_jobs(previous_jobs \o new_jobs), 3), SaveLimit)

InitSave ==
  /\ NetIdle
  /\ futures = NoFutures
  /\ access = NoAccess
  /\ curation = NoCuration
  /\ crawl = NoCrawl
  /\ \E stored \in StoredJobLists :
       scraper = [IdleScraper EXCEPT !.previous_jobs = stored, !.data_file = stored]

\* scrape_all_sources as save_jobs sees it: new_jobs holds the found jobs
\* that passed is_new_job.
FindJobs(found) ==
  /\ scraper.pc = "idle"
  /\ scraper' = [scraper EXCEPT !.pc = "done",
                                !.new_jobs = NewJobsOf(found, scraper.previous_jobs)]
  /\ UNCHANGED <<futures, access, netvars, curation, crawl>>

\* save_jobs; failure is the exception that ends it: none, open() raising
\* (the file is untouched), or json.dump raising (the file is left truncated
\* and loads as no jobs).
SaveJobs(failure) ==
  /\ scraper.pc = "done"
  /\ LET unique == jobs_to_save(scraper.previous_jobs, scraper.new_jobs) IN
       scraper' =
         CASE failure = "none" ->
                [scraper EXCEPT !.pc = "saved", !.data_file = unique,
                                !.previous_jobs = unique, !.all_jobs = unique]
           [] failure = "open" -> [scraper EXCEPT !.pc = "save failed"]
           [] failure = "dump" -> [scraper EXCEPT !.pc = "save failed", !.data_file = << >>]
  /\ UNCHANGED <<futures, access, netvars, curation, crawl>>

NextSave ==
  \/ \E found \in FoundLists : FindJobs(found)
  \/ \E failure \in {"none", "open", "dump"} : SaveJobs(failure)

SpecSave == InitSave /\ [][NextSave]_vars

\* The first job of all_jobs with the url.
FirstWithUrl(all_jobs, url) ==
  all_jobs[CHOOSE i \in 1..Len(all_jobs) :
             /\ all_jobs[i].url = url
             /\ \A j \in 1..(i - 1) : all_jobs[j].url # url]

(* C16: when save_jobs succeeds, the data file, previous_jobs and all_jobs
   hold the same list; the list has no url twice, at most 1000 jobs, dates
   that never increase, and of every url the first job in the order of
   previous_jobs followed by new_jobs. *)
C16_SavedList ==
  [][scraper'.pc = "saved" =>
       LET saved == scraper'.data_file
           all_jobs == scraper.previous_jobs \o scraper.new_jobs
       IN  /\ scraper'.previous_jobs = saved
           /\ scraper'.all_jobs = saved
           /\ Len(saved) <= 1000
           /\ \A i \in 1..Len(saved) : \A j \in (i + 1)..Len(saved) :
                /\ saved[i].url # saved[j].url
                /\ saved[i].date >= saved[j].date
           /\ \A i \in 1..Len(saved) : saved[i] = FirstWithUrl(all_jobs, saved[i].url)]_vars

\* A hand-edited file with a url twice and a run that found two new jobs,
\* one without a date: the save kept the first job of the url and put the
\* dated new job first.
C16_Witness ==
  /\ scraper.pc = "saved"
  /\ scraper.new_jobs = <<Job("indeed", 2001, 3), Job("remoteok", 2002, 0)>>
  /\ scraper.data_file =
       <<Job("indeed", 1, 3), Job("indeed", 2001, 3), Job("craigslist", 1, 1), Job("remoteok", 2002, 0)>>

-----------------------------------------------------------------------------
(* analyze_job_gravy_factor (src/ai_curate_jobs.py): the heuristic score of a
   job.  Titles, descriptions and salaries are strings and the tests are the
   substring tests of the source; every change of the score comes with one
   line of reasoning, so the reasoning is kept as the list of changes. *)

UpperCase == "ABCDEFGHIJKLMNOPQRSTUVWXYZ"

LowerCase == "abcdefghijklmnopqrstuvwxyz"

Digits == "0123456789"

Char(s, i) == SubSeq(s, i, i)

IsIn(c, alphabet) == \E i \in 1..Len(alphabet) : Char(alphabet, i) = c

Pos(c, alphabet) == CHOOSE i \in 1..Len(alphabet) : Char(alphabet, i) = c

\* str.lower() of one character
lower_char(c) == IF IsIn(c, UpperCase) THEN Char(LowerCase, Pos(c, UpperCase)) ELSE c

\* str.lower(): the two halves of the string, lowered and joined.
RECURSIVE lower(_)
lower(s) ==
  IF Len(s) = 0 THEN ""
  ELSE IF Len(s) = 1 THEN lower_char(s)
  ELSE LET half == Len(s) \div 2
       IN  lower(SubSeq(s, 1, half)) \o lower(SubSeq(s, half + 1, Len(s)))

\* `term in text`
InStr(term, text) ==
  \E i \in 1..(Len(text) - Len(term) + 1) : SubSeq(text, i, i + Len(term) - 1) = term

\* re.findall(r'\d+', s) with int() applied: the maximal runs of digits from
\* position i on, cur being the run in progress (-1: none).
RECURSIVE numbers_from(_, _, _)
numbers_from(s, i, cur) ==
  IF i > Len(s) THEN (IF cur >= 0 THEN <<cur>> ELSE << >>)
  ELSE IF IsIn(Char(s, i), Digits)
       THEN numbers_from(s, i + 1, (IF cur >= 0 THEN cur * 10 ELSE 0) + Pos(Char(s, i), Digits) - 1)
       ELSE (IF cur >= 0 THEN <<cur>> ELSE << >>) \o numbers_from(s, i + 1, -1)

numbers(s) == numbers_from(s, 1, -1)

RECURSIVE Sum(_)
Sum(deltas) == IF deltas = << >> THEN 0 ELSE Head(deltas) + Sum(Tail(deltas))

MaxOf(ns) == CHOOSE n \in Range(ns) : \A m \in Range(ns) : m <= n

NoSalary == [is_none |-> TRUE, text |-> ""]

Salary(text) == [is_none |-> FALSE, text |-> text]

entry_terms == <<"entry", "junior", "beginner", "intern", "trainee", "jr.", "jr">>

easy_terms == <<"simple", "basic", "easy", "straightforward">>

easy_job_types ==
  << <<"wordpress", "website", 15>>, <<"html", "css", 15>>, <<"web design", "", 12>>,
     <<"qa", "test", 15>>, <<"data entry", "", 20>>, <<"support", "", 10>> >>

red_flags ==
  << <<"senior", 20>>, <<"lead", 15>>, <<"expert", 15>>, <<"years experience", 10>>,
     <<"advanced", 10>>, <<"machine learning", 10>>, <<"deep learning", 10>>,
     <<"architect", 15>> >>

\* any(term in text for term in terms)
AnyIn(terms, text) == \E i \in 1..Len(terms) : InStr(terms[i], text)

\* The if/elif pair on title and description.
TitleOrDesc(terms, title, desc, in_title, in_desc) ==
  IF AnyIn(terms, title) THEN <<in_title>>
  ELSE IF AnyIn(terms, desc) THEN <<in_desc>>
  ELSE << >>

\* The salary block; int() of a run of digits cannot raise, so the except
\* branch is never taken.
salary_lines(salary) ==
  IF salary.is_none \/ salary.text = "" THEN << >>
  ELSE
    LET text == lower(salary.text)
        ns == numbers(salary.text)
    IN  IF ns = << >> THEN << >>
        ELSE IF InStr("hour", text) \/ InStr("hr", text)
        THEN LET hourly == ns[1] IN
               IF hourly >= 30 THEN <<35>>
               ELSE IF hourly >= 20 THEN <<25>>
               ELSE IF hourly >= 15 THEN <<15>>
               ELSE << >>
        ELSE IF InStr("k", text)
        THEN LET annual == ns[1] * 1000 IN
               IF annual >= 80000 THEN <<35>>
               ELSE IF annual >= 60000 THEN <<25>>
               ELSE IF annual >= 40000 THEN <<15>>
               ELSE << >>
        ELSE LET max_num == MaxOf(ns) IN
               IF max_num >= 80000 THEN <<30>>
               ELSE IF max_num >= 60000 THEN <<20>>
               ELSE IF max_num >= 5000 THEN <<15>>
               ELSE << >>

\* The loop over easy_job_types from entry i on.
RECURSIVE easy_type_lines(_, _, _)
easy_type_lines(i, title, desc) ==
  IF i > Len(easy_job_types) THEN << >>
  ELSE
    LET term1 == easy_job_types[i][1]
        term2 == easy_job_types[i][2]
        points == easy_job_types[i][3]
    IN  (IF InStr(term1, title) \/ (term2 # "" /\ InStr(term2, title)) THEN <<points>>
         ELSE IF InStr(term1, desc) \/ (term2 # "" /\ InStr(term2, desc)) THEN <<points \div 2>>
         ELSE << >>)
        \o easy_type_lines(i + 1, title, desc)

\* The loop over red_flags from entry i on.
RECURSIVE red_flag_lines(_, _, _)
red_flag_lines(i, title, desc) ==
  IF i > Len(red_flags) THEN << >>
  ELSE
    (IF InStr(red_flags[i][1], title) THEN <<0 - red_flags[i][2]>>
     ELSE IF InStr(red_flags[i][1], desc) THEN <<0 - (red_flags[i][2] \div 2)>>
     ELSE << >>)
    \o red_flag_lines(i + 1, title, desc)

\* A cap from above only; ScoreRange must tell it from the cap of the source.
cap_score_above(gravy_score) == IF gravy_score > 100 THEN 100 ELSE gravy_score

\* max(-50, min(100, gravy_score))
cap_score(gravy_score) ==
  LET m == IF gravy_score > 100 THEN 100 ELSE gravy_score
  IN  IF m < -50 THEN -50 ELSE m

analyze_job_gravy_factor(job) ==
  LET title == lower(job.title)
      desc == lower(job.description)
      reasoning ==
        TitleOrDesc(entry_terms, title, desc, 20, 10)
          \o TitleOrDesc(easy_terms, title, desc, 25, 15)
          \o salary_lines(job.salary)
          \o TitleOrDesc(<<"remote", "work from home">>, title, desc, 20, 15)
          \o easy_type_lines(1, title, desc)
          \o red_flag_lines(1, title, desc)
          \o (IF InStr("freelancer", lower(job.source)) THEN <<10>> ELSE << >>)
  IN  [gravy_score |-> cap_score(Sum(reasoning)), reasoning |-> reasoning]

\* The job dictionaries analysed: what the scrapers store (strings, a salary
\* that may be None), from nothing to advertise to every term at once.
JobTitles ==
  { "", "Python Developer",
    "Junior WordPress Developer (Remote)",
    "Easy Data Entry / Jr. QA Support - HTML, Web Design - Work From Home",
    "Senior Lead Architect, Expert in Advanced Machine Learning and Deep Learning, 10 years experience" }

JobDescriptions ==
  { "", "Great opportunity for new graduates.",
    "Simple website tests for beginner: remote support, html, web design, data entry...",
    "Senior expert to lead our architects: 5+ years experience, advanced machine learning, deep learning" }

JobSalaries ==
  { NoSalary, Salary(""), Salary("$35/hour"), Salary("$18/hr"), Salary("$12 per hour"),
    Salary("90K"), Salary("45k-55k"), Salary("$20 per week"),
    Salary("60000 - 85000"), Salary("$5,000 per month"), Salary("Competitive") }

JobSources == {"Freelancer", "Indeed"}

JobInputs ==
  [title : JobTitles, description : JobDescriptions, salary : JobSalaries, source : JobSources]

InitGravy ==
  /\ NetIdle
  /\ futures = NoFutures
  /\ access = NoAccess
  /\ scraper = IdleScraper
  /\ crawl = NoCrawl
  /\ \E job \in JobInputs : curation = [pc |-> "loaded", job |-> job]

\* get_top_gravy_jobs, for one job: the analysis is stored in the job.
AnalyzeJob ==
  /\ curation.pc = "loaded"
  /\ LET gravy_analysis == analyze_job_gravy_factor(curation.job) IN
       curation' = [pc |-> "analyzed", job |-> curation.job,
                    gravy_score |-> gravy_analysis.gravy_score,
                    gravy_reasoning |-> gravy_analysis.reasoning]
  /\ UNCHANGED <<futures, access, scraper, crawl, netvars>>

NextGravy == AnalyzeJob

SpecGravy == InitGravy /\ [][NextGravy]_vars

(* C17: the gravy_score that analyze_job_gravy_factor returns is an integer
   from -50 to 100. *)
C17_ScoreRange ==
  curation.pc = "analyzed" =>
    /\ curation.gravy_score \in Int
    /\ -50 <= curation.gravy_score
    /\ curation.gravy_score <= 100

\* A senior position without a salary: its lines add up to less than -50 and
\* the score returned is -50.
C17_Witness ==
  /\ curation.pc = "analyzed"
  /\ Sum(curation.gravy_reasoning) < -50
  /\ curation.gravy_score = -50

-----------------------------------------------------------------------------
(* The HTML reports: generate_gravy_html_report of src/ai_curate_jobs.py and
   of src/real_claude_analysis.py, and generate_html_report of
   src/gravy_jobs_app.py, each after the analysis that feeds it.  A job is
   its number, the keys it has and their values; a report is the list of the
   numbers of its job cards, section after section. *)

Apps == {"ai_curate_jobs", "real_claude_analysis", "gravy_jobs_app"}

\* A job as loaded from the jobs file: 'score' is the keyword score of the scraper.
RawJob(id, score) ==
  [id |-> id, score |-> score, has_gravy_score |-> FALSE, gravy_score |-> 0,
   has_category |-> FALSE, gravy_category |-> ""]

RawJobLists ==
  {<< >>} \cup {<<RawJob(1, a)>> : a \in {5, 75}}
          \cup {<<RawJob(1, a), RawJob(2, b)>> : a \in {5, 75}, b \in {5, 75}}

\* Scores analyze_job_gravy_factor can return, around the limits of the sections.
HeuristicScores == {-50, 9, 10, 30, 50, 70, 100}

\* An entry of the JSON list Claude answers with; the category may be missing
\* or a word of its own.
Analysis(gravy_score, has_category, category) ==
  [gravy_score |-> gravy_score, has_category |-> has_category, category |-> category]

Analyses ==
  { Analysis(80, TRUE, "Amazing"), Analysis(20, TRUE, "Decent"),
    Analysis(40, FALSE, ""), Analysis(55, TRUE, "Excellent") }

\* j.get('gravy_score', 0)
ScoreOf(j) == IF j.has_gravy_score THEN j.gravy_score ELSE 0

\* j.get('gravy_category', '')
CategoryOf(j) == IF j.has_category THEN j.gravy_category ELSE ""

\* list.sort(key=gravy_score, reverse=True): a stable insertion of the head
\* into the sorted tail.
RECURSIVE sorted_by_score(_)
sorted_by_score(jobs) ==
  IF jobs = << >> THEN << >>
  ELSE LET rest == sorted_by_score(Tail(jobs))
           before == SelectSeq(rest, LAMBDA j : ScoreOf(j) > ScoreOf(Head(jobs)))
           after == SelectSeq(rest, LAMBDA j : ScoreOf(j) <= ScoreOf(Head(jobs)))
       IN  before \o <<Head(jobs)>> \o after

Ids(jobs) == [i \in 1..Len(jobs) |-> jobs[i].id]

\* ai_curate_jobs.generate_gravy_html_report: five sections by score.
report_by_score(jobs) ==
  Ids(SelectSeq(jobs, LAMBDA j : ScoreOf(j) >= 70))
    \o Ids(SelectSeq(jobs, LAMBDA j : 50 <= ScoreOf(j) /\ ScoreOf(j) < 70))
    \o Ids(SelectSeq(jobs, LAMBDA j : 30 <= ScoreOf(j) /\ ScoreOf(j) < 50))
    \o Ids(SelectSeq(jobs, LAMBDA j : 10 <= ScoreOf(j) /\ ScoreOf(j) < 30))
    \o Ids(SelectSeq(jobs, LAMBDA j : ScoreOf(j) < 10))

WithCategory(jobs, category) == SelectSeq(jobs, LAMBDA j : CategoryOf(j) = category)

\* real_claude_analysis.generate_gravy_html_report: six sections by category.
report_by_category(jobs) ==
  Ids(WithCategory(jobs, "Amazing")) \o Ids(WithCategory(jobs, "Great"))
    \o Ids(WithCategory(jobs, "Good")) \o Ids(WithCategory(jobs, "Decent"))
    \o Ids(WithCategory(jobs, "Challenging")) \o Ids(WithCategory(jobs, "Uncategorized"))

\* gravy_jobs_app.generate_html_report: the category given to a job that has none.
category_for_score(j) ==
  LET score == IF j.has_gravy_score THEN j.gravy_score ELSE j.score IN
    IF score >= 70 THEN "Amazing"
    ELSE IF score >= 50 THEN "Great"
    ELSE IF score >= 30 THEN "Good"
    ELSE IF score >= 10 THEN "Decent"
    ELSE "Challenging"

\* The jobs after the loop over other_jobs.
categorized(jobs) ==
  [i \in 1..Len(jobs) |->
     IF jobs[i].has_category THEN jobs[i]
     ELSE [jobs[i] EXCEPT !.has_category = TRUE, !.gravy_category = category_for_score(jobs[i])]]

\* A section of gravy_jobs_app: the jobs that came with the category, then
\* the jobs that were given it.
AppSection(jobs, category) ==
  Ids(WithCategory(jobs, category))
    \o Ids(SelectSeq(jobs, LAMBDA j : ~j.has_category /\ category_for_score(j) = category))

\* gravy_jobs_app.generate_html_report: five sections by category.
report_app(jobs) ==
  AppSection(jobs, "Amazing") \o AppSection(jobs, "Great") \o AppSection(jobs, "Good")
    \o AppSection(jobs, "Decent") \o AppSection(jobs, "Challenging")

InitReport ==
  /\ NetIdle
  /\ futures = NoFutures
  /\ access = NoAccess
  /\ scraper = IdleScraper
  /\ crawl = NoCrawl
  /\ \E app \in Apps, jobs \in RawJobLists :
       curation = [pc |-> "loaded", app |-> app, jobs |-> jobs, cards |-> << >>]

\* get_top_gravy_jobs: every job gets the score of analyze_job_gravy_factor
\* and the jobs are sorted by it.
ScoreJobs(scores) ==
  /\ curation.pc = "loaded"
  /\ curation.app = "ai_curate_jobs"
  /\ Len(scores) = Len(curation.jobs)
  /\ curation' =
       [curation EXCEPT
          !.pc = "analyzed",
          !.jobs = sorted_by_score(
                     [i \in 1..Len(curation.jobs) |->
                        [curation.jobs[i] EXCEPT !.has_gravy_score = TRUE,
                                                 !.gravy_score = scores[i]]])]
  /\ UNCHANGED <<futures, access, scraper, crawl, netvars>>

\* analyze_jobs_with_claude on one batch: analyzed_jobs is what
\* extract_json_from_claude_response made of the answer, empty when the call
\* or the parsing failed; entry j is mapped to job j of the batch.
AnalyzeWithClaude(analyzed_jobs) ==
  /\ curation.pc = "loaded"
  /\ curation.app \in {"real_claude_analysis", "gravy_jobs_app"}
  /\ Len(analyzed_jobs) \in {0, Len(curation.jobs)}
  /\ curation' =
       [curation EXCEPT
          !.pc = "analyzed",
          !.jobs = sorted_by_score(
                     [i \in 1..Len(curation.jobs) |->
                        IF analyzed_jobs = << >> THEN curation.jobs[i]
                        ELSE [curation.jobs[i] EXCEPT
                                !.has_gravy_score = TRUE,
                                !.gravy_score = analyzed_jobs[i].gravy_score,
                                !.has_category = TRUE,
                                !.gravy_category =
                                   IF analyzed_jobs[i].has_category
                                   THEN analyzed_jobs[i].category ELSE "Uncategorized"]])]
  /\ UNCHANGED <<futures, access, scraper, crawl, netvars>>

\* The report generator of the application, on a list that is not empty.
GenerateReport ==
  /\ curation.pc = "analyzed"
  /\ curation.jobs # << >>
  /\ curation' =
       CASE curation.app = "ai_curate_jobs" ->
              [curation EXCEPT !.pc = "reported", !.cards = report_by_score(curation.jobs)]
         [] curation.app = "real_claude_analysis" ->
              [curation EXCEPT !.pc = "reported", !.cards = report_by_category(curation.jobs)]
         [] curation.app = "gravy_jobs_app" ->
              [curation EXCEPT !.pc = "reported", !.cards = report_app(curation.jobs),
                               !.jobs = categorized(curation.jobs)]
  /\ UNCHANGED <<futures, access, scraper, crawl, netvars>>

\* if not jobs: return "No jobs to display"
NoReport ==
  /\ curation.pc = "analyzed"
  /\ curation.jobs = << >>
  /\ curation' = [curation EXCEPT !.pc = "no jobs to display"]
  /\ UNCHANGED <<futures, access, scraper, crawl, netvars>>

ScoreLists == {<< >>} \cup {<<a>> : a \in HeuristicScores}
                \cup {<<a, b>> : a \in HeuristicScores, b \in HeuristicScores}

AnalysisLists == {<< >>} \cup {<<a>> : a \in Analyses} \cup {<<a, b>> : a \in Analyses, b \in Analyses}

NextReport ==
  \/ \E scores \in ScoreLists : ScoreJobs(scores)
  \/ \E analyzed_jobs \in AnalysisLists : AnalyzeWithClaude(analyzed_jobs)
  \/ GenerateReport
  \/ NoReport

SpecReport == InitReport /\ [][NextReport]_vars

\* The number of cards of the report that show job id.
CardsOf(id) == Cardinality({k \in 1..Len(curation.cards) : curation.cards[k] = id})

(* C18: a report generated from a list of jobs that is not empty has exactly
   one job card for each job of the list. *)
C18_OneCardPerJob ==
  curation.pc = "reported" =>
    \A i \in 1..Len(curation.jobs) : CardsOf(curation.jobs[i].id) = 1

-----------------------------------------------------------------------------
(* GeneralScraper (src/general_scraper.py): run, scrape_from_parameters and
   the recursive scrape_website.  The recursion is a stack of frames; a
   frame is entered when its page is about to be fetched and left when the
   loop over its links is over.  The proxy rotation between two sites
   touches the VPN manager only and is left out. *)

\* --max-pages, 10 by default
MaxPagesInputs == {1, 2, 3, 5, 10}

\* The max_depth Claude may answer with ("max depth 1-3").
MaxDepthInputs == {1, 2, 3}

\* The internal links of the pages of a site, by the shape of the site.
SiteShapes == {"leaf", "loop", "chain", "tree"}

Links(shape, url) ==
  CASE shape = "loop" -> <<url>>
    [] shape = "chain" /\ url = "/" -> <<"/a">>
    [] shape = "chain" /\ url = "/a" -> <<"/a/1">>
    [] shape = "tree" /\ url = "/" -> <<"/a", "/b">>
    [] shape = "tree" /\ url \in {"/a", "/b"} -> <<"/a/1", "/">>
    [] OTHER -> << >>

\* The three search pages scrape_from_parameters falls back to.
DefaultSites == <<"google", "duckduckgo", "bing">>

\* The target_sites of Claude's plan.
TargetLists == { << >>, <<"blog">>, <<"blog", "news">> }

HasFeature(f) == f \in Range(license_status.enabled_features)

CrawlConfigs ==
  { DefaultConfig, verify_license([DefaultConfig EXCEPT !.license_key = TestKey]).config }

IdleCrawl ==
  [pc |-> "idle", max_pages |-> 10, max_depth |-> 2, target_sites |-> << >>,
   shape |-> "leaf", stack |-> << >>, pages_scraped |-> 0, successful_sites |-> 0,
   failed_sites |-> 0, sites_started |-> 0]

InitCrawl ==
  /\ config \in CrawlConfigs
  /\ license_status = verify_license(config).result
  /\ working = {}
  /\ cache = [f \in CacheFiles |-> NoEntry]
  /\ now = 0
  /\ call = IdleCall
  /\ obs = NoObs
  /\ last_op = NoOp
  /\ n_calls = 0
  /\ futures = NoFutures
  /\ access = NoAccess
  /\ scraper = IdleScraper
  /\ curation = NoCuration
  /\ crawl = IdleCrawl

\* random.shuffle(internal_links) followed by internal_links[:k]
Shuffled(links, k) ==
  LET n == IF k < Len(links) THEN k ELSE Len(links)
  IN  {c \in [1..n -> Range(links)] : \A i \in 1..n : \A j \in 1..n : c[i] = c[j] => i = j}

Frame(url, depth) == [url |-> url, depth |-> depth, fetched |-> FALSE, links |-> << >>]

Top == crawl.stack[Len(crawl.stack)]

Pop == SubSeq(crawl.stack, 1, Len(crawl.stack) - 1)

\* run and scrape_from_parameters up to the loop over the sites.  max_pages
\* is the constructor's argument; target_sites and max_depth are Claude's
\* plan, used only with the claude_integration and general_scraping features.
Run(max_pages, target_sites, max_depth) ==
  /\ crawl.pc = "idle"
  /\ LET premium == HasFeature("general_scraping")
         planned == HasFeature("claude_integration") /\ premium
         sites == IF planned /\ target_sites # << >> THEN target_sites ELSE DefaultSites
     IN  crawl' = [crawl EXCEPT
                     !.pc = "running",
                     !.max_pages = IF ~premium /\ max_pages > 3 THEN 3 ELSE max_pages,
                     !.max_depth = IF planned THEN max_depth ELSE 2,
                     !.target_sites = IF ~premium /\ Len(sites) > 1
                                      THEN SubSeq(sites, 1, 1) ELSE sites]
  /\ UNCHANGED <<futures, access, scraper, curation, netvars>>

\* The loop of scrape_from_parameters calls scrape_website(url) for the next site.
StartSite(shape) ==
  /\ crawl.pc = "running"
  /\ crawl.stack = << >>
  /\ crawl.target_sites # << >>
  /\ crawl' = [crawl EXCEPT !.target_sites = Tail(@), !.shape = shape,
                            !.sites_started = @ + 1, !.stack = <<Frame("/", 0)>>]
  /\ UNCHANGED <<futures, access, scraper, curation, netvars>>

\* scrape_website from its entry to the choice of the links to follow.
FetchPage(ok, chosen) ==
  /\ crawl.pc = "running"
  /\ crawl.stack # << >>
  /\ ~Top.fetched
  /\ IF Top.depth > crawl.max_depth
     THEN /\ chosen = << >>
          /\ crawl' = [crawl EXCEPT !.stack = Pop]
     ELSE IF ~ok
     THEN /\ chosen = << >>
          /\ crawl' = [crawl EXCEPT !.stack = Pop, !.failed_sites = @ + 1]
     ELSE LET pages_scraped == crawl.pages_scraped + 1
              left == crawl.max_pages - pages_scraped
              links == Links(crawl.shape, Top.url)
          IN  /\ IF pages_scraped < crawl.max_pages /\ Top.depth < crawl.max_depth
                 THEN chosen \in Shuffled(links, IF 5 < left THEN 5 ELSE left)
                 ELSE chosen = << >>
              /\ crawl' = [crawl EXCEPT
                             !.pages_scraped = pages_scraped,
                             !.stack = Append(Pop, [Top EXCEPT !.fetched = TRUE,
                                                               !.links = chosen])]
  /\ UNCHANGED <<futures, access, scraper, curation, netvars>>

\* The loop over internal_links calls scrape_website(link, max_pages, depth + 1).
FollowLink ==
  /\ crawl.pc = "running"
  /\ crawl.stack # << >>
  /\ Top.fetched
  /\ Top.links # << >>
  /\ crawl' = [crawl EXCEPT
                 !.stack = Append(Append(Pop, [Top EXCEPT !.links = Tail(@)]),
                                  Frame(Head(Top.links), Top.depth + 1))]
  /\ UNCHANGED <<futures, access, scraper, curation, netvars>>

\* scrape_website returns its items.
ReturnItems ==
  /\ crawl.pc = "running"
  /\ crawl.stack # << >>
  /\ Top.fetched
  /\ Top.links = << >>
  /\ crawl' = [crawl EXCEPT
                 !.stack = Pop,
                 !.successful_sites = IF Top.depth = 0 THEN @ + 1 ELSE @]
  /\ UNCHANGED <<futures, access, scraper, curation, netvars>>

\* The loop over the sites is over.
FinishRun ==
  /\ crawl.pc = "running"
  /\ crawl.stack = << >>
  /\ crawl.target_sites = << >>
  /\ crawl' = [crawl EXCEPT !.pc = "done"]
  /\ UNCHANGED <<futures, access, scraper, curation, netvars>>

LinkChoices ==
  UNION {Shuffled(Links(shape, url), k) :
           shape \in SiteShapes, url \in {"/", "/a", "/b", "/a/1"}, k \in 0..5}

NextCrawl ==
  \/ \E max_pages \in MaxPagesInputs, target_sites \in TargetLists, max_depth \in MaxDepthInputs :
       Run(max_pages, target_sites, max_depth)
  \/ \E shape \in SiteShapes : StartSite(shape)
  \/ \E ok \in BOOLEAN, chosen \in LinkChoices : FetchPage(ok, chosen)
  \/ FollowLink
  \/ ReturnItems
  \/ FinishRun

SpecCrawl == InitCrawl /\ [][NextCrawl]_vars

(* C19: while the first site of a run is scraped, stats.pages_scraped does
   not exceed max_pages. *)
C19_PageLimit ==
  crawl.sites_started <= 1 => crawl.pages_scraped <= crawl.max_pages

(* C20: a run without the general_scraping feature scrapes at most one
   target site and fetches at most 3 pages. *)
C20_UnlicensedLimit ==
  (crawl.pc # "idle" /\ ~HasFeature("general_scraping")) =>
    /\ crawl.sites_started <= 1
    /\ crawl.pages_scraped <= 3

-----------------------------------------------------------------------------
(* The response cache on its own: store, look up, wait, damage a file *)

\* The bodies cache_response is given.
CacheTexts == {<<"job", "listings">>, <<"other", "page">>}

\* In this specification last_op.ret is an optional content.
InitCache ==
  /\ config = DefaultConfig
  /\ license_status = verify_license(config).result
  /\ working = {}
  /\ cache = [f \in CacheFiles |-> NoEntry]
  /\ now = 0
  /\ call = IdleCall
  /\ obs = NoObs
  /\ last_op = [op |-> "none", arg |-> "", ret |-> NoContent]
  /\ n_calls = 0
  /\ AppIdle

\* cache_response(url, content, params) at the current time.
StoreResponse(target, text) ==
  /\ cache' = cache_response(target, text, cache, now)
  /\ last_op' = [op |-> "cache_response", arg |-> "", ret |-> NoContent]
  /\ UNCHANGED <<config, license_status, working, now, call, obs, n_calls, appvars>>

\* get_cached_response(url, params) at the current time; ret is what it returns.
LookupCached(target) ==
  /\ last_op' = [op |-> "get_cached_response", arg |-> "",
                 ret |-> get_cached_response(target, cache, now)]
  /\ UNCHANGED <<config, license_status, working, cache, now, call, obs, n_calls, appvars>>

\* A stored cache file loses its JSON form (a write cut short): json.load or the
\* timestamp lookup raises on it from then on.
DamageEntry(f) ==
  /\ cache[f].exists
  /\ cache[f].readable
  /\ cache' = [cache EXCEPT ![f].readable = FALSE]
  /\ UNCHANGED <<config, license_status, working, now, call, obs, last_op, n_calls, appvars>>

\* datetime.now() moves on by an hour, or by an hour less than a tick.
CacheWait(hours) ==
  /\ now + hours <= MaxHours
  /\ now' = now + hours
  /\ UNCHANGED <<config, license_status, working, cache, call, obs, last_op, n_calls, appvars>>

NextCache ==
  \/ \E t \in Targets, text \in CacheTexts : StoreResponse(t, text)
  \/ \E t \in Targets : LookupCached(t)
  \/ \E f \in CacheFiles : DamageEntry(f)
  \/ \E hours \in {1, TickHours - 1} : CacheWait(hours)

SpecCache == InitCache /\ [][NextCache]_vars

\* C21: get_cached_response returns the content stored in the target's cache
\* file exactly when that file exists, can be read and the current time is
\* earlier than its timestamp plus cache_expiry_hours; for an expired, missing
\* or unreadable entry it returns None.
C21_FreshEntryOnly ==
  [][\A t \in Targets :
       LookupCached(t) =>
         LET entry == cache[cache_file(t)]
             fresh == entry.exists /\ entry.readable
                        /\ now - entry.timestamp < cache_expiry_hours
         IN /\ fresh => last_op'.ret = Some(entry.content)
            /\ ~fresh => last_op'.ret = NoContent]_vars

\* A lookup in the last hour before the expiry of an entry returned its content.
C21_Witness ==
  /\ last_op.op = "get_cached_response"
  /\ \E f \in CacheFiles :
       /\ cache[f].exists /\ cache[f].readable
       /\ cache[f].timestamp > 0
       /\ now = cache[f].timestamp + cache_expiry_hours - 1
       /\ last_op.ret = Some(cache[f].content)

-----------------------------------------------------------------------------
(* Sessions: fetch_with_retry calls around the request limit of a site *)

\* The target whose domain has site settings.
SiteTarget == CHOOSE t \in Targets : \E i \in 1..Len(SiteNames) : SiteInDomain(SiteNames[i], get_domain(t))

HasSiteSettings(domain) == \E i \in 1..Len(SiteNames) : SiteInDomain(SiteNames[i], domain)

\* The configuration after k counted requests to the site.
RECURSIVE Counted(_, _)
Counted(cfg, k) ==
  IF k = 0 THEN cfg ELSE increment_site_request_count(SiteTarget, Counted(cfg, k - 1), {DefaultProxies[2]})

\* Sessions that have made no request yet, one request less than the site
\* allows, and as many as it allows.
SessionConfigs ==
  LET m == site_settings_for(get_domain(SiteTarget)).max_requests_per_session
  IN { Counted(c, k) : c \in {DefaultConfig, WithBrightdata(DefaultConfig, "")},
                       k \in {0, m - 1, m} }

InitSession ==
  /\ config \in SessionConfigs
  /\ license_status = verify_license(config).result
  /\ working = {DefaultProxies[2]}
  /\ cache \in StoredCaches
  /\ now = 0
  /\ call = IdleCall
  /\ obs = NoObs
  /\ last_op = NoOp
  /\ n_calls = 0
  /\ AppIdle

NextSession ==
  \/ \E t \in Targets, ff \in BOOLEAN : Get(t, ff)
  \/ \E x \in Outcomes : Attempt(x)
  \/ \E x \in Outcomes : CommercialFetch(x)
  \/ CommercialLoopExit
  \/ \E x \in Outcomes : LastResort(x)
  \/ AllRetriesFailed
  \/ Return

SpecSession == InitSession /\ [][NextSession]_vars

\* C22: the request count of a domain with site settings never exceeds the
\* max_requests_per_session of its site; a fetch that goes past the cache when
\* the count has reached the maximum reads its proxy after rotate_proxy and
\* leaves the count of its domain at 1 and that of every other domain at 0.
C22_SessionBound ==
  /\ [](\A d \in Domains :
          HasSiteSettings(d) =>
            config.site_request_counts[d] <= site_settings_for(d).max_requests_per_session)
  /\ [][\A t \in Targets, ff \in BOOLEAN :
          ( /\ Get(t, ff)
            /\ call'.how # "cache"
            /\ HasSiteSettings(get_domain(t))
            /\ config.site_request_counts[get_domain(t)]
                 = site_settings_for(get_domain(t)).max_requests_per_session )
          => LET r == rotate_proxy(config, working)
             IN /\ config'.site_request_counts =
                     [d \in Domains |-> IF d = get_domain(t) THEN 1 ELSE 0]
                /\ call'.proxy = At(r.config.proxies, r.config.current_proxy_index)]_vars

\* A fetch is under way whose request was counted as the first of a new
\* session: the ten requests of the session before are in the total only.
C22_Witness ==
  /\ call.pc = "attempt"
  /\ call.target = SiteTarget
  /\ config.site_request_counts[get_domain(SiteTarget)] = 1
  /\ config.total_request_count
       = site_settings_for(get_domain(SiteTarget)).max_requests_per_session + 1

-----------------------------------------------------------------------------
(* analyze_jobs_with_claude batch by batch (real_claude_analysis.py and
   gravy_jobs_app.py).  The jobs are dictionaries shared between the input
   list, the batches and the result list, so the model keeps one list of job
   values and the result list as positions in it. *)

\* Jobs per batch.
batch_size == 3

\* The most jobs a call is made with: a full batch and a second one of two.
MaxJobs == 5

\* Input lists: jobs 1..n, none analysed yet.
ClaudeInputs == {[k \in 1..n |-> RawJob(k, 5)] : n \in 0..MaxJobs}

ApiKeys == {"", "sk-ant-key"}

\* An entry of the JSON list Claude answers with; job_id may be missing.
ClaudeEntry(has_job_id, job_id, gravy_score) ==
  [has_job_id |-> has_job_id, job_id |-> job_id, gravy_score |-> gravy_score,
   has_category |-> TRUE, category |-> "Good"]

\* What extract_json_from_claude_response makes of the answer for a batch of n
\* jobs: nothing (the call failed or the text did not parse), an entry per job
\* with its job_id, with the ids in reverse, without ids, or an entry more than
\* the batch has jobs.
BatchAnswers(n) ==
  {<< >>}
    \cup {[j \in 1..n |-> ClaudeEntry(TRUE, j, base + j)] : base \in {20, 60}}
    \cup {[j \in 1..n |-> ClaudeEntry(TRUE, n + 1 - j, base + j)] : base \in {20, 60}}
    \cup {[j \in 1..n |-> ClaudeEntry(FALSE, 0, base + j)] : base \in {20, 60}}
    \cup {[j \in 1..(n + 1) |-> ClaudeEntry(TRUE, j, base + j)] : base \in {20, 60}}

\* The loop over enumerate(analyzed_jobs) from entry j (0-based) on; i is the
\* 0-based offset of the batch and n its length.
RECURSIVE map_analyses(_, _, _, _, _)
map_analyses(jobs, i, n, analyzed_jobs, j) ==
  IF j >= Len(analyzed_jobs) THEN jobs
  ELSE LET analysis == analyzed_jobs[j + 1]
           job_id == (IF analysis.has_job_id THEN analysis.job_id ELSE j + 1) - 1
           batch_idx == IF 0 <= job_id /\ job_id < n THEN job_id ELSE j
           jobs1 == IF i + j < Len(jobs) /\ i + batch_idx < Len(jobs)
                    THEN [jobs EXCEPT ![i + batch_idx + 1] =
                            [@ EXCEPT !.has_gravy_score = TRUE,
                                      !.gravy_score = analysis.gravy_score,
                                      !.has_category = TRUE,
                                      !.gravy_category =
                                         IF analysis.has_category
                                         THEN analysis.category ELSE "Uncategorized"]]
                    ELSE jobs
       IN map_analyses(jobs1, i, n, analyzed_jobs, j + 1)

InitClaude ==
  /\ NetIdle
  /\ futures = NoFutures
  /\ access = NoAccess
  /\ scraper = IdleScraper
  /\ crawl = NoCrawl
  /\ \E input \in ClaudeInputs :
       curation = [pc |-> "called", input |-> input, jobs |-> input, i |-> 0,
                   results |-> << >>, failed |-> {}, returned |-> << >>]

\* analyze_jobs_with_claude(jobs, api_key): without a key the list is returned
\* as it came.
StartAnalysis(api_key) ==
  /\ curation.pc = "called"
  /\ curation' = IF api_key = ""
                 THEN [curation EXCEPT !.pc = "returned", !.returned = curation.jobs]
                 ELSE [curation EXCEPT !.pc = "batches"]
  /\ UNCHANGED <<futures, access, scraper, crawl, netvars>>

\* One pass of the loop: the batch at offset i, the answer mapped back to the
\* jobs, the batch appended to the results.
AnalyzeBatch(analyzed_jobs) ==
  /\ curation.pc = "batches"
  /\ curation.i < Len(curation.jobs)
  /\ LET i == curation.i
         last == IF i + batch_size < Len(curation.jobs) THEN i + batch_size
                 ELSE Len(curation.jobs)
         n == last - i
     IN /\ analyzed_jobs \in BatchAnswers(n)
        /\ curation' =
             [curation EXCEPT
                !.jobs = map_analyses(curation.jobs, i, n, analyzed_jobs, 0),
                !.results = @ \o [k \in 1..n |-> i + k],
                !.failed = IF analyzed_jobs = << >> THEN @ \cup ((i + 1)..last) ELSE @,
                !.i = i + batch_size]
  /\ UNCHANGED <<futures, access, scraper, crawl, netvars>>

\* After the loop: results.sort(key=gravy_score, reverse=True); return results.
ReturnResults ==
  /\ curation.pc = "batches"
  /\ curation.i >= Len(curation.jobs)
  /\ curation' =
       [curation EXCEPT
          !.pc = "returned",
          !.returned = sorted_by_score([k \in 1..Len(curation.results) |->
                                          curation.jobs[curation.results[k]]])]
  /\ UNCHANGED <<futures, access, scraper, crawl, netvars>>

NextClaude ==
  \/ \E api_key \in ApiKeys : StartAnalysis(api_key)
  \/ \E n \in 1..batch_size : \E analyzed_jobs \in BatchAnswers(n) : AnalyzeBatch(analyzed_jobs)
  \/ ReturnResults

SpecClaude == InitClaude /\ [][NextClaude]_vars

\* C23: what analyze_jobs_with_claude returns holds every input job exactly
\* once, in descending order of gravy_score, and the jobs of a batch whose
\* answer was missing or unparsable are returned as they were given.
C23_PermutationSortedUntouched ==
  curation.pc = "returned" =>
    /\ Len(curation.returned) = Len(curation.input)
    /\ \A k \in 1..Len(curation.input) :
         Cardinality({m \in 1..Len(curation.returned) :
                        curation.returned[m].id = curation.input[k].id}) = 1
    /\ \A m \in 1..(Len(curation.returned) - 1) :
         ScoreOf(curation.returned[m]) >= ScoreOf(curation.returned[m + 1])
    /\ \A k \in curation.failed :
         \E m \in 1..Len(curation.returned) : curation.returned[m] = curation.input[k]

-----------------------------------------------------------------------------
(* JobScraper._get_with_vpn (src/job_scraper.py): the VPN manager, then the
   loop of direct requests, then the saved fallback page.  What
   vpn_manager.get and requests.get answer is an input of each step. *)

\* retry_count is drawn from 0..MaxRetryCount; the default is 3.
MaxRetryCount == 3

\* vpn_manager.get: a page, an empty string, None, or an exception.
VpnOutcomes ==
  {[raised |-> FALSE, content |-> c] :
     c \in {Some(<<"job", "listings">>), Some(<< >>), NoContent}}
    \cup {[raised |-> TRUE, content |-> NoContent]}

\* _load_fallback_data: the text of the saved page; None when there is no file
\* or it cannot be read.
FallbackFiles == {NoContent, Some(<< >>), Some(<<"saved", "page">>)}

\* The decision after the VPN manager call without the allow_fallback test.
after_vpn_manager_unguarded(content, allow_fallback) ==
  IF Truthy(content) THEN "return_vpn" ELSE "direct"

\* Where _get_with_vpn goes after a VPN manager call that raised nothing is
\* decided on the content; a call that raised leaves content unset.
after_vpn_manager(content, allow_fallback) ==
  IF Truthy(content) THEN "return_vpn"
  ELSE IF ~allow_fallback THEN "return_none"
  ELSE "direct"

\* The end of _get_with_vpn once the loop is over.
after_direct_requests(fallback_data, allow_fallback) ==
  IF allow_fallback /\ Truthy(fallback_data) THEN fallback_data ELSE NoContent

IdleGet ==
  [pc |-> "idle", has_vpn |-> FALSE, fallback_file |-> NoContent,
   allow_fallback |-> TRUE, retry_count |-> 0, attempt |-> 0,
   vpn_calls |-> 0, vpn_content |-> NoContent,
   direct_sent |-> 0, direct_failed |-> 0,
   returned |-> NoContent, how |-> "none"]

\* A scraper with or without a VPN manager, and the fallback page an earlier
\* run may have saved for the url.
InitGet ==
  /\ NetIdle
  /\ futures = NoFutures
  /\ access = NoAccess
  /\ curation = NoCuration
  /\ crawl = NoCrawl
  /\ \E has_vpn \in BOOLEAN, fallback_file \in FallbackFiles :
       scraper = [IdleGet EXCEPT !.has_vpn = has_vpn, !.fallback_file = fallback_file]

\* _get_with_vpn(url, params, allow_fallback, retry_count) is called.
CallGetWithVpn(allow_fallback, retry_count) ==
  /\ scraper.pc = "idle"
  /\ scraper' = [scraper EXCEPT !.pc = IF scraper.has_vpn THEN "vpn" ELSE "direct",
                                !.allow_fallback = allow_fallback,
                                !.retry_count = retry_count]
  /\ UNCHANGED <<futures, access, curation, crawl, netvars>>

\* self.vpn_manager.get(url, params=params) and what follows from its answer.
VpnManagerGet(outcome) ==
  /\ scraper.pc = "vpn"
  /\ LET content == IF outcome.raised THEN NoContent ELSE outcome.content
         next == after_vpn_manager(content, scraper.allow_fallback)
     IN scraper' =
          [scraper EXCEPT
             !.vpn_calls = @ + 1,
             !.vpn_content = content,
             !.pc = IF next = "direct" THEN "direct" ELSE "returned",
             !.returned = IF next = "return_vpn" THEN content ELSE NoContent,
             !.how = IF next = "return_vpn" THEN "vpn"
                     ELSE IF next = "return_none" THEN "none" ELSE @]
  /\ UNCHANGED <<futures, access, curation, crawl, netvars>>

\* One pass of `for attempt in range(retry_count)`: requests.get and the
\* status test; only a 200 response ends the call.
DirectRequest(outcome) ==
  /\ scraper.pc = "direct"
  /\ scraper.attempt < scraper.retry_count
  /\ scraper' =
       IF outcome.kind = "response" /\ outcome.status_code = 200
       THEN [scraper EXCEPT !.direct_sent = @ + 1, !.pc = "returned",
                            !.returned = Some(outcome.text), !.how = "direct"]
       ELSE [scraper EXCEPT !.direct_sent = @ + 1, !.direct_failed = @ + 1,
                            !.attempt = @ + 1]
  /\ UNCHANGED <<futures, access, curation, crawl, netvars>>

\* All attempts failed: the fallback page when allow_fallback is set, else None.
AfterDirectRequests ==
  /\ scraper.pc = "direct"
  /\ scraper.attempt >= scraper.retry_count
  /\ LET result == after_direct_requests(scraper.fallback_file, scraper.allow_fallback)
     IN scraper' = [scraper EXCEPT !.pc = "returned", !.returned = result,
                                   !.how = IF result.is_none THEN "none" ELSE "fallback"]
  /\ UNCHANGED <<futures, access, curation, crawl, netvars>>

NextGet ==
  \/ \E allow_fallback \in BOOLEAN, retry_count \in 0..MaxRetryCount :
       CallGetWithVpn(allow_fallback, retry_count)
  \/ \E outcome \in VpnOutcomes : VpnManagerGet(outcome)
  \/ \E outcome \in Outcomes : DirectRequest(outcome)
  \/ AfterDirectRequests

SpecGet == InitGet /\ [][NextGet]_vars

\* C24: with a VPN manager the first request of _get_with_vpn is the VPN
\* manager's and truthy content from it is returned; direct requests number at
\* most retry_count and are sent only without a VPN manager or after a VPN
\* manager call without content under allow_fallback; the saved fallback page
\* is returned only under allow_fallback after retry_count failed direct
\* requests; every other return is the text of a 200 response or None.
C24_VpnFirstThenDirect ==
  /\ scraper.vpn_calls <= 1
  /\ scraper.vpn_calls = 1 => scraper.has_vpn
  /\ (scraper.pc # "idle" /\ scraper.has_vpn /\ scraper.pc # "vpn") => scraper.vpn_calls = 1
  /\ Truthy(scraper.vpn_content) =>
       (scraper.pc = "returned" /\ scraper.returned = scraper.vpn_content
          /\ scraper.direct_sent = 0)
  /\ scraper.direct_sent <= scraper.retry_count
  /\ (scraper.pc = "direct" \/ scraper.direct_sent > 0) =>
       \/ ~scraper.has_vpn
       \/ (scraper.vpn_calls = 1 /\ ~Truthy(scraper.vpn_content) /\ scraper.allow_fallback)
  /\ (scraper.pc = "returned" /\ scraper.how = "fallback") =>
       /\ scraper.allow_fallback
       /\ scraper.direct_failed = scraper.retry_count
       /\ scraper.direct_sent = scraper.retry_count
       /\ scraper.returned = scraper.fallback_file
       /\ Truthy(scraper.returned)
  /\ (scraper.pc = "returned" /\ scraper.how = "direct") =>
       (scraper.direct_sent = scraper.direct_failed + 1 /\ ~scraper.returned.is_none)
  /\ (scraper.pc = "returned" /\ scraper.how = "none") => scraper.returned = NoContent
  /\ scraper.pc = "returned" => scraper.how \in {"vpn", "direct", "fallback", "none"}

\* The saved page was returned after the VPN manager gave nothing and three
\* direct requests failed.
C24_Witness ==
  /\ scraper.pc = "returned"
  /\ scraper.how = "fallback"
  /\ scraper.has_vpn
  /\ scraper.vpn_calls = 1
  /\ scraper.direct_failed = MaxRetryCount

-----------------------------------------------------------------------------
(* rotate_proxy on a stored configuration: load_config takes the proxies list
   of the configuration file as it is, with or without the direct connection
   (null) among its entries. *)

StoredProxyLists ==
  { DefaultProxies,
    <<DefaultProxies[2], DefaultProxies[3]>>,
    <<DefaultProxies[2]>> }

InitStoredProxy ==
  /\ \E proxies \in StoredProxyLists :
       config = [DefaultConfig EXCEPT !.proxies = proxies]
  /\ license_status = verify_license(config).result
  /\ working \in SUBSET (ProxyPool \ {None})
  /\ cache = [f \in CacheFiles |-> NoEntry]
  /\ now = 0
  /\ call = IdleCall
  /\ obs = NoObs
  /\ last_op = NoOp
  /\ n_calls = 0
  /\ AppIdle

SpecStoredProxy == InitStoredProxy /\ [][NextProxy]_vars

\* C25: the proxy rotate_proxy returned is the entry of the proxies list at the
\* current_proxy_index it stored, also when no proxy of the list answered the
\* probe.
C25_ReturnedIsCurrent ==
  last_op.op = "rotate_proxy" =>
    last_op.ret = At(config.proxies, config.current_proxy_index)

====
